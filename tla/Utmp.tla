------------------------------- MODULE Utmp -------------------------------
(***************************************************************************)
(* The table of the users on line: struct UTMPFILE and struct UINDEX in    *)
(* shared memory.  A slot of uinfo[] is a telnet session (one process,     *)
(* which knows its slot number) or a web session (no process; a request    *)
(* finds its slot by the session id in the URL).  The slots that are not   *)
(* in use form a list at guesthash_head[0]; web guests are also linked by  *)
(* the host they come from.  uindex lists the slots of every account.      *)
(*                                                                         *)
(* utmp_login and utmp_logout run under the lock file .UTMP; the lock is   *)
(* free when sweep.by is Nobody, and the steps under it are actions of     *)
(* their own only where the code can be stopped or lets other processes    *)
(* matter (the sweep of utmp_kickidle).  Everything else - requests, the   *)
(* counting of logins, kicks, the death of processes - takes no lock.      *)
(***************************************************************************)
EXTENDS Integers, FiniteSets

CONSTANTS Users,        \* accounts other than guest
          Guest,        \* the guest account
          Telnet,       \* process ids of telnet and ssh sessions
          WWW,          \* the process id (1) in the slot of a web session
          Nobody,       \* no process; also "no user" in a free slot
          Requests,     \* web requests that may be under way together
          Hosts,        \* hosts the web sessions come from
          IpHash,       \* utmp_iphash: a chain number > 0 for every host
          MaxActive,    \* MAXACTIVE, the slots there are
          MaxActiveRun, \* MAXACTIVERUN, the slots that may be used
          IndexSize,    \* the 6 entries uindex has for an account
          WebLimit,     \* a web login is refused with this many sessions (3)
          TelnetLimit   \* allowedlogin of multi_user_check (2 or 3)

ASSUME UtmpAssumption ==
    /\ MaxActive \in Nat \ {0} /\ MaxActiveRun \in 1..MaxActive
    /\ IndexSize \in Nat \ {0} /\ WebLimit \in Nat /\ TelnetLimit \in Nat
    /\ Hosts # {} /\ IpHash \in [Hosts -> Nat \ {0}]
    /\ Guest \notin Users /\ WWW \notin Telnet
    /\ Nobody \notin Users \cup Telnet \cup {Guest, WWW}

Slot == 1..MaxActive
Entry == 1..IndexSize
Chain == {0} \cup {IpHash[h] : h \in Hosts}
NoHost == CHOOSE h \in Hosts : TRUE

VARIABLES
    uinfo,        \* uinfo[]: see Session
    head, next,   \* guesthash_head, guesthash_next; 0 ends a chain
    uindex,       \* uindexshm->user[uid][]; 0 is no slot
    activeuser, wwwguestnum,
    peak,         \* maxtoday, maxuser and the file .max_login_num
    sweep,        \* utmp_kickidle: the process in it, the slot it is at
    proc,         \* the telnet processes
    req,          \* the logout requests that have passed user_init
    clear,        \* an entry of uindex count_uindex has found to be dead
    harm          \* history: what has gone wrong so far, see Properties

table == <<uinfo, head, next, uindex, activeuser, wwwguestnum, peak>>
vars == <<table, sweep, proc, req, clear, harm>>

(***************************************************************************)
(* A slot.  age is the time since lasttime: 0 up to 18 minutes, 1 up to an *)
(* hour, 2 longer.  A slot that is not active keeps old values that nobody *)
(* looks at; here they are the ones of Unused.                             *)
(***************************************************************************)
Session == [active : {TRUE}, pid : Telnet \cup {WWW}, uid : Users \cup {Guest},
            host : Hosts, kicked : BOOLEAN, age : 0..2]
Unused == [active |-> FALSE, pid |-> Nobody, uid |-> Nobody,
           host |-> NoHost, kicked |-> FALSE, age |-> 0]

NewSession(pid, u, h) == [active |-> TRUE, pid |-> pid, uid |-> u,
                          host |-> h, kicked |-> FALSE, age |-> 0]

WebGuest(r) == r.active /\ r.pid = WWW /\ r.uid = Guest

(***************************************************************************)
(* A telnet process: before multi_user_check, before u_enter, in the sweep *)
(* at the end of u_enter, in session, in u_exit.  ent is utmpent; own says *)
(* (for the properties only) that the slot is still the one it was given.  *)
(* A request has the same two.                                             *)
(***************************************************************************)
NoProc == [pc |-> "none", uid |-> Nobody, ent |-> 0, own |-> FALSE]
NoReq == [slot |-> 0, own |-> FALSE]
NoClear == [uid |-> Nobody, entry |-> 0]
NoSweep == [by |-> Nobody, at |-> 0]

(* kill(pid, 0) *)
Alive(pid) == pid \in Telnet /\ proc[pid].pc # "none"

Dead(r) == r.pid \in Telnet /\ ~Alive(r.pid)

(* For the properties: the session in slot k is a web session, or its own  *)
(* process is still there (not another one that got the same pid).         *)
Live(k) == /\ uinfo[k].active
           /\ uinfo[k].pid \in Telnet => proc[uinfo[k].pid].ent = k

(* initutmp of shminit, after a reboot; .max_login_num is older. *)
Init ==
    /\ uinfo = [k \in Slot |-> Unused]
    /\ head = [c \in Chain |-> IF c = 0 THEN 1 ELSE 0]
    /\ next = [k \in Slot |-> IF k = MaxActive THEN 0 ELSE k + 1]
    /\ uindex = [u \in Users |-> [i \in Entry |-> 0]]
    /\ activeuser = 0 /\ wwwguestnum = 0
    /\ peak \in {[today |-> 0, ever |-> 0, file |-> n] : n \in {0, MaxActiveRun}}
    /\ sweep = NoSweep
    /\ proc = [p \in Telnet |-> NoProc]
    /\ req = [r \in Requests |-> NoReq]
    /\ clear = NoClear
    /\ harm = {}

-----------------------------------------------------------------------------
(***************************************************************************)
(* The index.                                                              *)
(***************************************************************************)

(* The entries of u that count_uindex counts; it clears the dead ones. *)
Counted(u) == {i \in Entry : uindex[u][i] # 0 /\ ~Dead(uinfo[uindex[u][i]])}

CountedTelnet(u) == {i \in Counted(u) : uinfo[uindex[u][i]].pid \in Telnet}

Cleared(u) == [uindex EXCEPT ![u] =
                  [i \in Entry |-> IF i \in Counted(u) THEN @[i] ELSE 0]]

(* Faulty form: the first entry is taken whatever it leads to. *)
add_uindex_first(index, u, k) ==
    IF u = Guest THEN index ELSE [index EXCEPT ![u][1] = k]

(* The first entry that is empty or whose slot is somebody else's.  When   *)
(* there is none the slot is not entered.                                  *)
add_uindex(index, u, k) ==
    IF u = Guest \/ \E i \in Entry : index[u][i] = k THEN index
    ELSE LET usable == {i \in Entry : LET e == index[u][i] IN
                           \/ e = 0
                           \/ ~uinfo[e].active \/ uinfo[e].uid # u}
         IN IF usable = {} THEN index
            ELSE [index EXCEPT ![u][CHOOSE i \in usable :
                                      \A j \in usable : i <= j] = k]

remove_uindex(u, k) ==
    IF u = Guest THEN uindex
    ELSE [uindex EXCEPT ![u] = [i \in Entry |-> IF @[i] = k THEN 0 ELSE @[i]]]

(* The file is read before it is written: it keeps a higher number. *)
update_max_online(n) ==
    LET ever == IF n <= peak.ever THEN peak.ever
                ELSE IF peak.file > n THEN peak.file ELSE n
    IN IF n <= peak.today THEN peak
       ELSE [today |-> n, ever |-> ever,
             file |-> IF ever > peak.file THEN ever ELSE peak.file]

-----------------------------------------------------------------------------
(***************************************************************************)
(* utmp_login, with the lock.                                              *)
(***************************************************************************)

LockFree == sweep.by = Nobody

CanLogin == /\ head[0] \in 1..MaxActiveRun
            /\ ~uinfo[head[0]].active

(* The index is the one its caller has left. *)
utmp_login(up, index) ==
    LET j == head[0]
        c == IpHash[up.host]
    IN
    /\ CanLogin
    /\ uinfo' = [uinfo EXCEPT ![j] = up]
    /\ activeuser' = activeuser + 1
    /\ peak' = update_max_online(activeuser + 1)
    /\ uindex' = add_uindex(index, up.uid, j)
    /\ IF WebGuest(up)
         THEN /\ head' = [head EXCEPT ![0] = next[j], ![c] = j]
              /\ next' = [next EXCEPT ![j] = head[c]]
              /\ wwwguestnum' = wwwguestnum + 1
         ELSE /\ head' = [head EXCEPT ![0] = next[j]]
              /\ next' = [next EXCEPT ![j] = 0]
              /\ UNCHANGED wwwguestnum
    /\ harm' = IF up.uid = Guest \/ \E i \in Entry : uindex'[up.uid][i] = j
               THEN harm ELSE harm \cup {"overflow"}

(* At most once a minute a login is followed by utmp_kickidle. *)
StartSweep(by) == sweep' \in {NoSweep, [by |-> by, at |-> 1]}

(***************************************************************************)
(* Putting slot k back.  Both utmp_logout and utmp_kickidle push it on the *)
(* list of chain 0; only utmp_kickidle unlinks a web guest first.          *)
(***************************************************************************)
ReleaseLeaks(k, hd, nx) ==   \* faulty form: the slot is not pushed
    /\ uinfo' = [uinfo EXCEPT ![k] = Unused]
    /\ next' = nx
    /\ head' = hd
    /\ uindex' = remove_uindex(uinfo[k].uid, k)
    /\ activeuser' = activeuser - 1

Release(k, hd, nx) ==
    /\ uinfo' = [uinfo EXCEPT ![k] = Unused]
    /\ next' = [nx EXCEPT ![k] = hd[0]]
    /\ head' = [hd EXCEPT ![0] = k]
    /\ uindex' = remove_uindex(uinfo[k].uid, k)
    /\ activeuser' = activeuser - 1

(* Nobody owns slot k any more. *)
Disown(k) ==
    /\ req' = [r \in Requests |-> IF req[r].slot = k
                                  THEN [req[r] EXCEPT !.own = FALSE] ELSE req[r]]
    /\ proc' = [p \in Telnet |-> IF proc[p].ent = k
                                 THEN [proc[p] EXCEPT !.own = FALSE] ELSE proc[p]]

(***************************************************************************)
(* utmp_kickidle: slot by slot, with the lock.                             *)
(***************************************************************************)

(* Faulty forms: a process that still runs is not spared; a web session    *)
(* ends with the 18 minutes of user_init.                                  *)
IdleAlive(r) == r.active /\ (r.age = 2 \/ (r.pid = WWW /\ r.kicked))
IdleSoon(r) == /\ r.active
               /\ r.pid = WWW => r.age > 0 \/ r.kicked
               /\ r.pid # WWW => r.age = 2 /\ ~Alive(r.pid)

(* Live telnet sessions that have been idle are told to leave instead. *)
Idle(r) == /\ r.active
           /\ r.pid = WWW => r.age = 2 \/ r.kicked
           /\ r.pid # WWW => r.age = 2 /\ ~Alive(r.pid)

Advance == sweep' = [sweep EXCEPT !.at = @ + 1]

(* The slots of chain c. *)
Reach(c) ==
    LET after[n \in 0..MaxActive] ==
          IF n = 0 THEN {head[c]} \ {0}
          ELSE after[n - 1] \cup ({next[k] : k \in after[n - 1]} \ {0})
    IN after[MaxActive]

(* Faulty form: a guest is freed the way utmp_logout frees a session. *)
SweepFreeLinked ==
    /\ sweep.at \in Slot /\ Idle(uinfo[sweep.at])
    /\ Release(sweep.at, head, next)
    /\ Disown(sweep.at)
    /\ Advance
    /\ UNCHANGED <<wwwguestnum, peak, clear, harm>>

(* The search for a guest's predecessor only ends if it is found or the    *)
(* chain does.                                                             *)
SweepFree ==
    LET k == sweep.at
        r == uinfo[k]
        c == IpHash[r.host]
    IN
    /\ k \in Slot /\ Idle(r)
    /\ IF ~WebGuest(r) THEN Release(k, head, next) /\ UNCHANGED wwwguestnum
       ELSE /\ wwwguestnum' = wwwguestnum - 1
            /\ \/ /\ head[c] = k
                  /\ Release(k, [head EXCEPT ![c] = next[k]], next)
               \/ /\ head[c] # k
                  /\ k \in Reach(c) \/ \E i \in Reach(c) : next[i] = 0
                  /\ Release(k, head, [i \in Slot |->
                        IF i \in Reach(c) /\ next[i] = k THEN next[k] ELSE next[i]])
    /\ Disown(k)
    /\ Advance
    /\ UNCHANGED <<peak, clear, harm>>

(* SIGHUP goes to whatever process has the pid by now: one in session      *)
(* leaves through u_exit, one that is still logging in just exits.         *)
SweepHangup ==
    LET q == uinfo[sweep.at].pid IN
    /\ sweep.at \in Slot
    /\ q \in Telnet /\ Alive(q) /\ uinfo[sweep.at].age = 2
    /\ proc' = [proc EXCEPT ![q] =
                  IF @.pc \in {"in", "exit"} THEN [@ EXCEPT !.pc = "exit"]
                  ELSE NoProc]
    /\ IF sweep.by = q THEN sweep' = NoSweep ELSE Advance
    /\ UNCHANGED <<table, req, clear, harm>>

SweepSkip ==
    LET r == uinfo[sweep.at] IN
    /\ sweep.at \in Slot
    /\ ~Idle(r) /\ (r.pid \in Telnet => r.age < 2)
    /\ Advance
    /\ UNCHANGED <<table, proc, req, clear, harm>>

SweepEnd ==
    /\ sweep.at = MaxActive + 1
    /\ sweep' = NoSweep
    /\ proc' = IF sweep.by \in Telnet THEN [proc EXCEPT ![sweep.by].pc = "in"]
               ELSE proc
    /\ UNCHANGED <<table, req, clear, harm>>

-----------------------------------------------------------------------------
(***************************************************************************)
(* Telnet sessions.                                                        *)
(***************************************************************************)

(* login_query: turned away when the table is full. *)
Connect(p, u) ==
    /\ proc[p].pc = "none"
    /\ activeuser < MaxActiveRun
    /\ proc' = [proc EXCEPT ![p] = [NoProc EXCEPT !.pc = "login", !.uid = u]]
    /\ UNCHANGED <<table, sweep, req, clear, harm>>

(* multi_user_check: guests pass; others with other telnet logins either   *)
(* have one of them hung up or are refused above the limit.                *)
MultiCheck(p) ==
    LET u == proc[p].uid
        others == CountedTelnet(u)
        victim == uinfo[uindex[u][CHOOSE i \in others : \A j \in others : i <= j]].pid
    IN
    /\ proc[p].pc = "login"
    /\ \/ /\ u = Guest \/ (u # Guest /\ Cardinality(others) \in 0..TelnetLimit - 1)
          /\ proc' = [proc EXCEPT ![p].pc = "enter"]
       \/ /\ u # Guest /\ Cardinality(others) >= TelnetLimit
          /\ proc' = [proc EXCEPT ![p] = NoProc]
       \/ /\ u # Guest /\ others # {}
          /\ proc' = [proc EXCEPT ![p].pc = "enter",
                                  ![victim].pc = IF @ = "in" THEN "exit" ELSE @]
    /\ uindex' = IF u = Guest THEN uindex ELSE Cleared(u)
    /\ UNCHANGED <<uinfo, head, next, activeuser, wwwguestnum, peak>>
    /\ UNCHANGED <<sweep, req, clear, harm>>

(* u_enter: utmp_login under the lock; without a slot the process exits. *)
Enter(p) ==
    /\ proc[p].pc = "enter" /\ LockFree
    /\ utmp_login(NewSession(p, proc[p].uid, NoHost), uindex)
    /\ StartSweep(p)
    /\ proc' = [proc EXCEPT ![p] =
                  [@ EXCEPT !.pc = IF sweep' = NoSweep THEN "in" ELSE "sweep",
                            !.ent = head[0], !.own = TRUE]]
    /\ UNCHANGED <<req, clear>>

EnterRefused(p) ==
    /\ proc[p].pc = "enter" /\ LockFree /\ ~CanLogin
    /\ proc' = [proc EXCEPT ![p] = NoProc]
    /\ UNCHANGED <<table, sweep, req, clear, harm>>

(* A key is pressed: update_utmp writes lasttime into its slot. *)
Key(p) ==
    /\ proc[p].pc = "in"
    /\ uinfo' = [uinfo EXCEPT ![proc[p].ent].age = 0]
    /\ UNCHANGED <<head, next, uindex, activeuser, wwwguestnum, peak>>
    /\ UNCHANGED <<sweep, proc, req, clear, harm>>

Leave(p) ==
    /\ proc[p].pc = "in"
    /\ proc' = [proc EXCEPT ![p].pc = "exit"]
    /\ UNCHANGED <<table, sweep, req, clear, harm>>

(***************************************************************************)
(* utmp_logout of slot k, with the lock: whoever has the slot now.         *)
(***************************************************************************)
utmp_logout(k, own) ==
    /\ Release(k, head, next)
    /\ harm' = IF own THEN harm ELSE harm \cup {"logout"}
    /\ UNCHANGED <<wwwguestnum, peak>>

(* u_exit *)
Exit(p) ==
    /\ proc[p].pc = "exit" /\ LockFree
    /\ \/ /\ uinfo[proc[p].ent].active
          /\ utmp_logout(proc[p].ent, proc[p].own)
          /\ req' = [r \in Requests |-> IF req[r].slot = proc[p].ent
                                   THEN [req[r] EXCEPT !.own = FALSE] ELSE req[r]]
          /\ proc' = [q \in Telnet |-> IF q = p THEN NoProc
                                   ELSE IF proc[q].ent = proc[p].ent
                                   THEN [proc[q] EXCEPT !.own = FALSE] ELSE proc[q]]
       \/ /\ ~uinfo[proc[p].ent].active
          /\ proc' = [proc EXCEPT ![p] = NoProc]
          /\ UNCHANGED <<table, req, harm>>
    /\ UNCHANGED <<sweep, clear>>

(* The process is killed; its slot stays, and its lock is dropped. *)
Kill(p) ==
    /\ proc[p].pc # "none"
    /\ proc' = [proc EXCEPT ![p] = NoProc]
    /\ sweep' = IF sweep.by = p THEN NoSweep ELSE sweep
    /\ UNCHANGED <<table, req, clear, harm>>

-----------------------------------------------------------------------------
(***************************************************************************)
(* Web sessions.                                                           *)
(***************************************************************************)

(* check_multi: a session of the account from the same host, less than 18  *)
(* minutes old, is handed out again.                                       *)
check_multi(u, h) ==
    {k \in IF u = Guest THEN Reach(IpHash[h]) ELSE {uindex[u][i] : i \in Entry} \ {0} :
        LET r == uinfo[k] IN
        r.active /\ r.pid = WWW /\ r.uid = u /\ r.age = 0 /\ r.host = h}

(* wwwlogin when check_multi finds nothing. *)
WebLogin(u, h) ==
    /\ LockFree /\ check_multi(u, h) = {}
    /\ u # Guest => Cardinality(Counted(u)) < WebLimit
    /\ utmp_login(NewSession(WWW, u, h), IF u = Guest THEN uindex ELSE Cleared(u))
    /\ StartSweep(WWW)
    /\ UNCHANGED <<proc, req, clear>>

(* Refused, by the limit or for lack of a slot: the count has been made. *)
WebRefused(u, h) ==
    /\ LockFree /\ check_multi(u, h) = {} /\ u # Guest
    /\ Cardinality(Counted(u)) >= WebLimit \/ ~CanLogin
    /\ uindex' = Cleared(u)
    /\ UNCHANGED <<uinfo, head, next, activeuser, wwwguestnum, peak>>
    /\ UNCHANGED <<sweep, proc, req, clear, harm>>

(* user_init accepts a request for slot k, and sets lasttime. *)
user_init(k) == /\ uinfo[k].active /\ uinfo[k].pid = WWW
                /\ uinfo[k].age = 0 /\ ~uinfo[k].kicked

(* bbslogout up to its lock: guests do not log out. *)
LogoutRequest(r, k) ==
    /\ req[r] = NoReq
    /\ user_init(k) /\ uinfo[k].uid # Guest
    /\ req' = [req EXCEPT ![r] = [slot |-> k, own |-> TRUE]]
    /\ UNCHANGED <<table, sweep, proc, clear, harm>>

Logout(r) ==
    LET k == req[r].slot IN
    /\ req[r] # NoReq /\ LockFree
    /\ \/ /\ uinfo[k].active
          /\ utmp_logout(k, req[r].own)
          /\ proc' = [p \in Telnet |-> IF proc[p].ent = k
                                  THEN [proc[p] EXCEPT !.own = FALSE] ELSE proc[p]]
          /\ req' = [q \in Requests |-> IF q = r THEN NoReq
                                   ELSE IF req[q].slot = k
                                   THEN [req[q] EXCEPT !.own = FALSE] ELSE req[q]]
       \/ /\ ~uinfo[k].active
          /\ req' = [req EXCEPT ![r] = NoReq]
          /\ UNCHANGED <<table, proc, harm>>
    /\ UNCHANGED <<sweep, clear>>

(* bbskick, and a guest who logs in under a name: iskicked is set. *)
KickWeb(k) ==
    /\ uinfo[k].active /\ uinfo[k].pid = WWW
    /\ uinfo' = [uinfo EXCEPT ![k].kicked = TRUE]
    /\ UNCHANGED <<head, next, uindex, activeuser, wwwguestnum, peak>>
    /\ UNCHANGED <<sweep, proc, req, clear, harm>>

-----------------------------------------------------------------------------
(***************************************************************************)
(* count_uindex in a process that does not hold the lock: an entry is      *)
(* found to belong to a dead process, then set to 0.                       *)
(***************************************************************************)
CountDead(u, i) ==
    /\ clear = NoClear /\ uindex[u][i] # 0
    /\ Dead(uinfo[uindex[u][i]])
    /\ clear' = [uid |-> u, entry |-> i]
    /\ UNCHANGED <<table, sweep, proc, req, harm>>

ClearEntry ==
    LET u == clear.uid
        k == uindex[u][clear.entry]
    IN
    /\ clear # NoClear
    /\ uindex' = [uindex EXCEPT ![u][clear.entry] = 0]
    /\ harm' = IF k # 0 /\ Live(k) THEN harm \cup {"clear"} ELSE harm
    /\ clear' = NoClear
    /\ UNCHANGED <<uinfo, head, next, activeuser, wwwguestnum, peak>>
    /\ UNCHANGED <<sweep, proc, req>>

(* Time passes for slot k.  A web request does not take the 42 minutes     *)
(* between the two limits.                                                 *)
Age(k) ==
    /\ uinfo[k].active /\ uinfo[k].age < 2
    /\ uinfo[k].age = 1 => \A r \in Requests : req[r].slot # k
    /\ uinfo' = [uinfo EXCEPT ![k].age = @ + 1]
    /\ UNCHANGED <<head, next, uindex, activeuser, wwwguestnum, peak>>
    /\ UNCHANGED <<sweep, proc, req, clear, harm>>

Sweep == SweepFree \/ SweepHangup \/ SweepSkip \/ SweepEnd

TelnetStep(p) == \/ \E u \in Users \cup {Guest} : Connect(p, u)
                 \/ MultiCheck(p) \/ Enter(p) \/ EnterRefused(p)
                 \/ Key(p) \/ Leave(p) \/ Exit(p) \/ Kill(p)

WebStep == \/ \E u \in Users \cup {Guest}, h \in Hosts :
                  WebLogin(u, h) \/ WebRefused(u, h)
           \/ \E r \in Requests : Logout(r) \/ \E k \in Slot : LogoutRequest(r, k)
           \/ \E k \in Slot : KickWeb(k)

Count == ClearEntry \/ \E u \in Users, i \in Entry : CountDead(u, i)

Next == \/ Sweep \/ WebStep \/ Count
        \/ \E p \in Telnet : TelnetStep(p)
        \/ \E k \in Slot : Age(k)

Spec == Init /\ [][Next]_vars

-----------------------------------------------------------------------------
(***************************************************************************)
(* Properties.  Three things go wrong in the table, and harm records them: *)
(* "logout": a logout has freed a slot that had been given to somebody     *)
(* else; "clear": count_uindex has cleared the entry of a live session;    *)
(* "overflow": an account had more sessions than uindex has entries.       *)
(***************************************************************************)

Process == [pc : {"none", "login", "enter", "sweep", "in", "exit"},
            uid : Users \cup {Guest, Nobody}, ent : 0..MaxActive, own : BOOLEAN]
Request == [slot : 0..MaxActive, own : BOOLEAN]

(* The values every variable can have.  After a logout of a stranger's     *)
(* slot wwwguestnum has no bound.                                          *)
TypeOK ==
    /\ uinfo \in [Slot -> Session \cup {Unused}]
    /\ head \in [Chain -> 0..MaxActive] /\ next \in [Slot -> 0..MaxActive]
    /\ uindex \in [Users -> [Entry -> 0..MaxActive]]
    /\ activeuser \in 0..MaxActive /\ wwwguestnum \in Nat
    /\ peak \in [today : Nat, ever : Nat, file : Nat]
    /\ sweep \in [by : Telnet \cup {WWW, Nobody}, at : 0..MaxActive + 1]
    /\ proc \in [Telnet -> Process] /\ req \in [Requests -> Request]
    /\ clear \in [uid : Users, entry : Entry] \cup {NoClear}
    /\ harm \subseteq {"logout", "clear", "overflow"}

Members(c) == IF c = 0 THEN {k \in Slot : ~uinfo[k].active}
              ELSE {k \in Slot : WebGuest(uinfo[k]) /\ IpHash[uinfo[k].host] = c}

(* What checkutmp looks at: the list of chain 0 holds the unused slots, a  *)
(* web guest is in the chain of its host and nothing else is, and every    *)
(* chain ends; unless a logout has freed somebody else's slot.             *)
ChainsRight ==
    "logout" \notin harm => \A c \in Chain : Reach(c) = Members(c)
        /\ \A k \in Reach(c) : Cardinality({i \in Reach(c) : next[i] = k})
                                  = IF head[c] = k THEN 0 ELSE 1

(* activeuser and wwwguestnum count the slots, and .max_login_num has seen *)
(* at least as many.                                                       *)
CountsRight ==
    /\ peak.file >= activeuser
    /\ "logout" \notin harm =>
          /\ activeuser = Cardinality({k \in Slot : uinfo[k].active})
          /\ wwwguestnum = Cardinality({k \in Slot : WebGuest(uinfo[k])})

(* An entry of uindex leads to a slot of that account, always. *)
IndexLeadsHome ==
    \A u \in Users : \A i \in Entry :
        uindex[u][i] # 0 => /\ uinfo[uindex[u][i]].active
                            /\ uinfo[uindex[u][i]].uid = u

(* The shared table is consistent between any two steps of the logins, the *)
(* sweeps and the logouts: list, guest chains, counters and index agree.   *)
TableRight == TypeOK /\ ChainsRight /\ CountsRight /\ IndexLeadsHome

Indexed(k) == \E i \in Entry : uindex[uinfo[k].uid][i] = k

(* A session of a named user is in uindex, where the limits on logins and  *)
(* everyone who looks for the user find it, as long as its process lives,  *)
(* unless its entry was cleared by mistake or did not fit.                 *)
SessionsIndexed ==
    harm \cap {"clear", "overflow"} = {} => 
        \A k \in Slot : Live(k) /\ uinfo[k].uid # Guest => Indexed(k)

(* A telnet process in session has its slot to itself, whoever else is     *)
(* swept or logged out, unless a logout has freed somebody else's slot.    *)
TelnetKeepsSlot ==
    "logout" \notin harm => \A p \in Telnet : proc[p].pc \in {"sweep", "in", "exit"} =>
        /\ proc[p].own
        /\ uinfo[proc[p].ent].active /\ uinfo[proc[p].ent].pid = p

(* A login is refused for lack of room only when all the slots that may be *)
(* used are ("the number of users on line has reached its limit").         *)
RefusedOnlyWhenFull ==
    "logout" \notin harm /\ ~CanLogin => \A k \in 1..MaxActiveRun : uinfo[k].active

(* While a request is under way its session is not timed out: it loses its *)
(* slot only when it is kicked or logged out (the 18 minutes of user_init  *)
(* "leave a window" to the hour of utmp_kickidle).                         *)
RequestKeepsSession ==
    [][\A r \in Requests : req[r].own /\ ~req'[r].own /\ req'[r].slot # 0 =>
            \/ uinfo[req[r].slot].kicked
            \/ sweep' = sweep]_vars

==========================================================================
