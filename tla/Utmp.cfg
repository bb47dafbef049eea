SPECIFICATION Spec
SYMMETRY Symmetry
CONSTRAINT NoForeignLogout
CONSTANTS
  a = a  t1 = t1  t2 = t2  r1 = r1  r2 = r2  h1 = h1  h2 = h2
  Guest = Guest  WWW = WWW  Nobody = Nobody
  Users <- OneUser
  Telnet <- TwoTelnet
  Requests <- OneRequest
  Hosts <- OneHost
  IpHash <- OneHash
  MaxActive = 3
  MaxActiveRun = 2
  IndexSize = 2
  WebLimit = 2
  TelnetLimit = 1
INVARIANTS TableRight SessionsIndexed TelnetKeepsSlot RefusedOnlyWhenFull
PROPERTIES RequestKeepsSession
