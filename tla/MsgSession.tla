----------------------------- MODULE MsgSession -----------------------------
(***************************************************************************)
(* How a telnet session comes to show the messages that arrive for its     *)
(* user.  A sender saves the message (module MsgFiles) and sends SIGUSR2;  *)
(* the handler r_msg may run only while the session waits for a key, and   *)
(* leaves a note in a flag otherwise:                                      *)
(*                                                                         *)
(*   occurredSIGUSR2   look for messages before the next wait for a key    *)
(*   have_msg_unread   there are messages, but the user is not to be       *)
(*                     disturbed (msg_blocked); ^Z shows them              *)
(*                                                                         *)
(* The files are reduced to the number of unread messages.  Every change   *)
(* of a flag is a step of its own: signals come between any two.           *)
(***************************************************************************)
EXTENDS Integers

CONSTANTS MaxArrivals  \* bound: messages that are ever sent

ASSUME MsgSessionAssumption == MaxArrivals \in Nat \ {0}

VARIABLES
    unread,   \* messages in msgindex2 that nobody has taken
    received, \* msgindex2 exists
    arrivals, \* messages sent so far
    quiet,    \* senders that have found the screen locked: no kill will follow
    kills,    \* senders between save_msgtext and kill
    sig,      \* SIGUSR2 is pending; it is blocked
    can,      \* canProcessSIGUSR2
    occurred, \* occurredSIGUSR2
    blocked,  \* msg_blocked
    have,     \* have_msg_unread
    mode,     \* uinfo.mode: "MSG", "LOCKSCREEN" or any other
    ctx,      \* what the user is doing
    outer,    \* what r_msg2 or ^Z will put back
    io,       \* where igetch is
    frame,    \* the r_msg that is showing messages
    nomsg,    \* the user has set DEF_POSTNOMSG
    getkey,   \* the user has set DEF_MSGGETKEY
    excuse    \* history: how an unread message was forgotten, see Remembered

prefs == <<nomsg, getkey>>
senders == <<received, arrivals, quiet, kills>>
flags == <<can, occurred, blocked, have, mode>>
session == <<unread, senders, sig, flags, ctx, outer, io, frame, prefs, excuse>>

Contexts == {"menu", "edit", "lock", "compose", "browse"}
Modes == {"MSG", "LOCKSCREEN", "other"}

(* at: count, key (waiting for one) or end; from: the signal or a call;    *)
(* save: the mode to be put back.                                          *)
NoFrame == [at |-> "none", from |-> "none", save |-> "other"]
NoOuter == [ctx |-> "menu", mode |-> "other", block |-> FALSE]
Showing == frame.at # "none"

(* Where igetch is: not in it, or back with a key; about to wait, with a   *)
(* message to look for; back from r_msg(0); about to reset the note;       *)
(* waiting; waiting again; back from the r_msg(0) of ^Z.                   *)
IoStates == {"run", "got", "mask", "unmask", "clear", "select", "again", "z_unmask"}

(* switchSIGUSR2 and ^Z block the signal around r_msg(0). *)
Masked == io \in {"mask", "unmask", "z_unmask"}

SessionInit ==
    /\ unread \in 0..1 /\ received = (unread > 0)
    /\ arrivals = unread /\ quiet = 0 /\ kills = 0
    /\ sig = FALSE /\ can = FALSE
    /\ occurred = TRUE            \* start_client
    /\ blocked = FALSE /\ have = FALSE
    /\ mode = "other" /\ ctx = "menu" /\ outer = NoOuter
    /\ io = "run" /\ frame = NoFrame
    /\ nomsg \in BOOLEAN /\ getkey \in BOOLEAN
    /\ excuse = {}

-----------------------------------------------------------------------------
(***************************************************************************)
(* r_msg(s) up to the first message.  The first line decides whether a     *)
(* message may be shown at all; the flags tell the session otherwise.      *)
(***************************************************************************)
Deferred(s) == (~can /\ s) \/ mode = "MSG"

(* Faulty form: nothing is noted while messages are blocked. *)
r_msg_silent(s, from, block) ==
    \/ /\ Deferred(s)
       /\ occurred' = TRUE
       /\ UNCHANGED <<have, mode, frame>>
    \/ /\ ~Deferred(s) /\ block
       /\ UNCHANGED <<occurred, have, mode, frame>>
    \/ /\ ~Deferred(s) /\ ~block
       /\ frame' = [at |-> "count", from |-> from, save |-> mode]
       /\ mode' = "MSG"
       /\ UNCHANGED <<occurred, have>>

r_msg(s, from, block) ==
    \/ /\ Deferred(s)
       /\ occurred' = TRUE
       /\ UNCHANGED <<have, mode, frame>>
    \/ /\ ~Deferred(s) /\ block
       /\ have' = TRUE
       /\ UNCHANGED <<occurred, mode, frame>>
    \/ /\ ~Deferred(s) /\ ~block
       /\ frame' = [at |-> "count", from |-> from, save |-> mode]
       /\ mode' = "MSG"
       /\ UNCHANGED <<occurred, have>>

(* A signal that comes while select waits ends the wait, unless it came    *)
(* just before it began. *)
Interrupted == IF io = "select" THEN io' \in {"select", "again"} ELSE io' = io

(* A request noted between the unblocking of the signal and the reset of   *)
(* occurredSIGUSR2 in switchSIGUSR2 is lost with it.                       *)
NoteLate(clearing) ==
    excuse' = IF clearing /\ Deferred(TRUE) /\ unread > 0 THEN excuse \cup {"reset"}
              ELSE excuse

-----------------------------------------------------------------------------
(***************************************************************************)
(* The senders: sendmsgfunc, send_msg.  A user who has locked the screen   *)
(* counts as off line for some of them, and gets no signal.                *)
(***************************************************************************)
Arrive ==
    /\ arrivals < MaxArrivals
    /\ arrivals' = arrivals + 1 /\ unread' = unread + 1 /\ received' = TRUE
    /\ kills' = kills + 1
    /\ UNCHANGED <<quiet, sig, flags, ctx, outer, io, frame, prefs, excuse>>

FindLocked ==
    /\ arrivals < MaxArrivals /\ mode = "LOCKSCREEN"
    /\ arrivals' = arrivals + 1 /\ quiet' = quiet + 1
    /\ UNCHANGED <<unread, received, kills, sig, flags, ctx, outer, io, frame, prefs, excuse>>

(* The screen may be unlocked by now: nothing tells the session. *)
ArriveQuietly ==
    /\ quiet > 0 /\ quiet' = quiet - 1
    /\ unread' = unread + 1 /\ received' = TRUE
    /\ excuse' = IF ctx = "lock" THEN excuse ELSE excuse \cup {"quiet"}
    /\ UNCHANGED <<arrivals, kills, sig, flags, ctx, outer, io, frame, prefs>>

(* While r_msg waits for a key, igetch asks r_msg(0) again at once, which  *)
(* finds the mode MSG, and resets the note.                                *)
Kill ==
    /\ kills > 0 /\ kills' = kills - 1
    /\ IF Masked
         THEN /\ sig' = TRUE
              /\ UNCHANGED <<flags, io, frame, excuse>>
       ELSE IF frame.at = "key"
         THEN /\ occurred' \in BOOLEAN
              /\ UNCHANGED <<sig, can, blocked, have, mode, io, frame, excuse>>
       ELSE /\ r_msg(TRUE, "signal", blocked)
            /\ IF ~Showing /\ frame' = frame THEN Interrupted ELSE io' = io
            /\ NoteLate(io = "clear")
            /\ UNCHANGED <<sig, can, blocked>>
    /\ UNCHANGED <<unread, received, arrivals, quiet, ctx, outer, prefs>>

(* Another session of the user shows a message, or clears all of them. *)
OtherShows ==
    /\ unread > 0
    /\ unread' = unread - 1
    /\ excuse' = IF unread' = 0 THEN excuse \cap {"stuck"} ELSE excuse
    /\ UNCHANGED <<senders, sig, flags, ctx, outer, io, frame, prefs>>

OtherClears ==
    /\ received
    /\ unread' = 0 /\ received' = FALSE
    /\ excuse' = excuse \cap {"stuck"}
    /\ UNCHANGED <<arrivals, quiet, kills, sig, flags, ctx, outer, io, frame, prefs>>

-----------------------------------------------------------------------------
(***************************************************************************)
(* The messages on the screen: the loop and the end of r_msg.  A wait for  *)
(* a key in it passes through switchSIGUSR2 as every wait does.            *)
(***************************************************************************)
ShowNext ==
    /\ frame.at = "count" /\ unread > 0
    /\ unread' = unread - 1
    /\ excuse' = IF unread' = 0 THEN excuse \cap {"stuck"} ELSE excuse
    /\ IF getkey THEN /\ frame' = [frame EXCEPT !.at = "key"]
                      /\ can' = TRUE /\ occurred' = FALSE
       ELSE UNCHANGED <<frame, can, occurred>>
    /\ UNCHANGED <<senders, sig, blocked, have, mode, ctx, outer, io, prefs>>

PressKey ==
    /\ frame.at = "key"
    /\ frame' = [frame EXCEPT !.at = "count"]
    /\ can' = FALSE
    /\ UNCHANGED <<unread, senders, sig, occurred, blocked, have, mode, ctx, outer, io, prefs, excuse>>

NoMore ==
    /\ frame.at = "count" /\ unread = 0
    /\ frame' = [frame EXCEPT !.at = "end"]
    /\ UNCHANGED <<unread, senders, sig, flags, ctx, outer, io, prefs, excuse>>

EndFrame ==
    /\ frame.at = "end"
    /\ have' = FALSE /\ mode' = frame.save
    /\ frame' = NoFrame
    /\ IF frame.from = "signal" THEN Interrupted ELSE io' = io
    /\ UNCHANGED <<unread, senders, sig, can, occurred, blocked, ctx, outer, prefs, excuse>>

-----------------------------------------------------------------------------
(***************************************************************************)
(* igetch: switchSIGUSR2(1), select, switchSIGUSR2(0).                     *)
(***************************************************************************)
SwitchOn ==
    /\ io \in {"run", "got", "again"} /\ ~can /\ ~Showing
    /\ can' = TRUE
    /\ io' = IF occurred THEN "mask" ELSE "select"
    /\ UNCHANGED <<unread, senders, sig, occurred, blocked, have, mode, ctx, outer, frame, prefs, excuse>>

(* A request made while the mode is MSG is noted again, for nothing: the   *)
(* note is reset afterwards.                                               *)
SwitchCall ==
    /\ io = "mask"
    /\ io' = "unmask"
    /\ r_msg(FALSE, "switch", blocked)
    /\ excuse' = IF Deferred(FALSE) /\ unread > 0 THEN excuse \cup {"mode"} ELSE excuse
    /\ UNCHANGED <<unread, senders, sig, can, blocked, ctx, outer, prefs>>

(* A signal that has come meanwhile is delivered at once. *)
Unmask ==
    /\ io = "unmask" /\ ~Showing
    /\ io' = "clear" /\ sig' = FALSE
    /\ IF sig THEN r_msg(TRUE, "signal", blocked) /\ NoteLate(TRUE)
       ELSE UNCHANGED <<occurred, have, mode, frame, excuse>>
    /\ UNCHANGED <<unread, senders, can, blocked, ctx, outer, prefs>>

SwitchReset ==
    /\ io = "clear" /\ ~Showing
    /\ io' = "select"
    /\ occurred' = FALSE
    /\ UNCHANGED <<unread, senders, sig, can, blocked, have, mode, ctx, outer, frame, prefs, excuse>>

(* A wait that was interrupted begins anew. *)
SwitchOff ==
    /\ io = "again" /\ can /\ ~Showing
    /\ can' = FALSE
    /\ UNCHANGED <<unread, senders, sig, occurred, blocked, have, mode, ctx, outer, io, frame, prefs, excuse>>

Key ==
    /\ io = "select" /\ ~Showing
    /\ io' = "got" /\ can' = FALSE
    /\ UNCHANGED <<unread, senders, sig, occurred, blocked, have, mode, ctx, outer, frame, prefs, excuse>>

-----------------------------------------------------------------------------
(***************************************************************************)
(* What the user does with a key, up to the next wait for one.             *)
(***************************************************************************)
AtWork == io = "got" /\ ~Showing
Idle == io' = "run" /\ UNCHANGED <<unread, senders, sig, can, have, frame, prefs>>

(* unblock_msg *)
Unblock ==
    /\ blocked' = FALSE /\ occurred' = TRUE
    /\ excuse' = excuse \ {"stuck"}

(* Every menu sets the mode when it is entered or comes back. *)
Menu ==
    /\ AtWork /\ ctx = "menu"
    /\ mode' = "other"
    /\ UNCHANGED <<occurred, blocked, ctx, outer, excuse>> /\ Idle

(* editor, for an article or a mail. *)
EditStart ==
    /\ AtWork /\ ctx = "menu"
    /\ ctx' = "edit" /\ mode' = "other"
    /\ blocked' = (blocked \/ nomsg)
    /\ UNCHANGED <<occurred, outer, excuse>> /\ Idle

(* The file cannot be opened: editor returns between block and unblock. *)
EditFails ==
    /\ AtWork /\ ctx = "menu"
    /\ mode' = "other"
    /\ blocked' = (blocked \/ nomsg)
    /\ excuse' = IF nomsg THEN excuse \cup {"stuck"} ELSE excuse
    /\ UNCHANGED <<occurred, ctx, outer>> /\ Idle

(* Faulty form: unblock_msg is left out. *)
EditEndBlocked ==
    /\ AtWork /\ ctx = "edit"
    /\ ctx' = "menu"
    /\ UNCHANGED <<blocked, occurred, excuse, mode, outer>> /\ Idle

EditEnd ==
    /\ AtWork /\ ctx = "edit"
    /\ ctx' = "menu"
    /\ IF nomsg THEN Unblock ELSE UNCHANGED <<blocked, occurred, excuse>>
    /\ UNCHANGED <<mode, outer>> /\ Idle

(* x_lockscreen *)
LockStart ==
    /\ AtWork /\ ctx = "menu"
    /\ ctx' = "lock" /\ mode' = "LOCKSCREEN" /\ blocked' = TRUE
    /\ UNCHANGED <<occurred, outer, excuse>> /\ Idle

(* Faulty form: msg_blocked is reset by hand. *)
LockEndSilent ==
    /\ AtWork /\ ctx = "lock"
    /\ ctx' = "menu" /\ blocked' = FALSE
    /\ UNCHANGED <<mode, occurred, outer, excuse>> /\ Idle

LockEnd ==
    /\ AtWork /\ ctx = "lock"
    /\ ctx' = "menu"
    /\ Unblock
    /\ UNCHANGED <<mode, outer>> /\ Idle

(* s_msg: do_sendmsg sets the mode MSG while the user writes a message. *)
ComposeStart ==
    /\ AtWork /\ ctx = "menu"
    /\ ctx' = "compose" /\ mode' = "MSG"
    /\ UNCHANGED <<occurred, blocked, outer, excuse>> /\ Idle

ComposeEnd ==
    /\ AtWork /\ ctx = "compose"
    /\ ctx' = "menu"
    /\ UNCHANGED <<mode, occurred, blocked, outer, excuse>> /\ Idle

(* ^Z with have_msg_unread: r_msg(0), with msg_blocked off meanwhile. *)
CtrlZ ==
    /\ AtWork /\ have /\ ctx # "browse" /\ mode # "LOCKSCREEN"
    /\ io' = "z_unmask"
    /\ outer' = [outer EXCEPT !.block = blocked]
    /\ blocked' = FALSE
    /\ r_msg(FALSE, "ctrlz", FALSE)
    /\ UNCHANGED <<unread, senders, sig, can, ctx, prefs, excuse>>

CtrlZEnd ==
    /\ io = "z_unmask" /\ ~Showing
    /\ io' = "run" /\ sig' = FALSE
    /\ IF sig THEN r_msg(TRUE, "signal", blocked)
       ELSE UNCHANGED <<occurred, have, mode, frame>>
    /\ blocked' = outer.block
    /\ outer' = [outer EXCEPT !.block = FALSE]
    /\ UNCHANGED <<unread, senders, can, ctx, prefs, excuse>>

(* ^Z without: r_msg2.  If there is no message at all it returns at once,  *)
(* with msg_blocked set and the mode MSG.                                  *)
StartBrowsing ==
    /\ AtWork /\ ~have /\ ctx # "browse" /\ mode # "LOCKSCREEN"
    /\ blocked' = TRUE /\ mode' = "MSG"
    /\ IF received
         THEN /\ ctx' = "browse"
              /\ outer' = [outer EXCEPT !.ctx = ctx, !.mode = mode]
              /\ UNCHANGED excuse
         ELSE /\ excuse' = excuse \cup {"stuck"}
              /\ UNCHANGED <<ctx, outer>>
    /\ UNCHANGED occurred /\ Idle

BrowseEnd ==
    /\ AtWork /\ ctx = "browse"
    /\ ctx' = outer.ctx /\ mode' = outer.mode
    /\ outer' = [outer EXCEPT !.ctx = "menu", !.mode = "other"]
    /\ Unblock
    /\ Idle

Senders == Arrive \/ FindLocked \/ ArriveQuietly \/ Kill \/ OtherShows \/ OtherClears
Shows == ShowNext \/ PressKey \/ NoMore \/ EndFrame
Waits == SwitchOn \/ SwitchCall \/ Unmask \/ SwitchReset \/ SwitchOff \/ Key \/ CtrlZEnd
Works == \/ Menu \/ EditStart \/ EditFails \/ EditEnd \/ LockStart \/ LockEnd
         \/ ComposeStart \/ ComposeEnd \/ CtrlZ \/ StartBrowsing \/ BrowseEnd

SessionNext == Senders \/ Shows \/ Waits \/ Works

SessionSpec == SessionInit /\ [][SessionNext]_session

(* The program and the senders go on; the user keeps typing, and leaves    *)
(* every activity some day.                                                *)
LiveSpec ==
    /\ SessionSpec
    /\ WF_session(Kill) /\ WF_session(Shows) /\ WF_session(Waits)
    /\ SF_session(EditEnd) /\ SF_session(LockEnd) /\ SF_session(ComposeEnd) /\ SF_session(BrowseEnd)

-----------------------------------------------------------------------------
(***************************************************************************)
(* Properties                                                              *)
(***************************************************************************)

(* The values every variable can have. *)
SessionTypeOK ==
    /\ unread \in 0..MaxArrivals /\ arrivals \in 0..MaxArrivals
    /\ kills + quiet + unread <= 2 * arrivals /\ kills >= 0 /\ quiet >= 0
    /\ received \in BOOLEAN /\ sig \in BOOLEAN
    /\ <<can, occurred, blocked, have>> \in BOOLEAN \X BOOLEAN \X BOOLEAN \X BOOLEAN
    /\ mode \in Modes /\ ctx \in Contexts /\ io \in IoStates
    /\ frame.at \in {"none", "count", "key", "end"}
    /\ excuse \subseteq {"mode", "quiet", "reset", "stuck"}

(* No message is forgotten: as long as one is unread and its signal was    *)
(* sent, a signal is pending, a flag is set, or r_msg is about to look;    *)
(* unless switchSIGUSR2 asked while the mode was MSG, or reset a note that *)
(* had just been made, or a sender had found the screen locked that is     *)
(* unlocked now, or messages stay blocked for good.                        *)
Remembered ==
    unread > 0 /\ kills = 0 /\ excuse = {} /\ ctx # "lock" =>
        sig \/ occurred \/ have \/ frame.at \in {"count", "key"}

(* A locked screen shows no message. *)
LockedQuiet == ctx = "lock" => ~Showing

(* Blocking ends: in a menu, messages are not blocked and the flag of      *)
(* messages held back leads to them, unless r_msg2 or editor has left      *)
(* msg_blocked set.                                                        *)
BlockEnds == ctx = "menu" /\ io # "z_unmask" /\ "stuck" \notin excuse => ~blocked

(* Blocking does what the flag says and no longer: silent under a lock,    *)
(* over in a menu.                                                         *)
BlockingRight == SessionTypeOK /\ LockedQuiet /\ BlockEnds

(* Every message is shown to a user who keeps typing, by this session or   *)
(* another, unless it was forgotten in one of those ways.                  *)
Shown == unread > 0 ~> unread = 0 \/ excuse # {}

(* "Temporarily block messages while posting an article": a user who has   *)
(* set DEF_POSTNOMSG sees no message in the editor without asking for it.  *)
EditorUndisturbed == ctx = "edit" /\ nomsg => frame.from \notin {"signal", "switch"}
=============================================================================
