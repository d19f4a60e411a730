--------------------------- MODULE MCSessionServer ---------------------------
(***************************************************************************)
(* SessionServer over two accounts, two passwords and two sessions, from   *)
(* two sides.  "races": two requests in flight while the clock stands.     *)
(* "time": one request at a time, and time for sessions, blocks and        *)
(* expired rows to come and go.                                            *)
(***************************************************************************)
EXTENDS SessionServer

CONSTANTS r1, r2

VARIABLE side

MCUsernames == {"root", "ana"}
MCPasswords == {"pw1", "pw2"}
MCReqs == {r1, r2}
MCIPs == {"ip"}

sidedVars == <<vars, side>>

OnSide(A) ==
    /\ A
    /\ side = "races" => now' = now
    /\ side = "time" => req'[r2] = req[r2]
    /\ UNCHANGED side

SidedInit == ServerInit /\ side \in {"races", "time"}

\* The fairness of ServerSpec.
SidedSpec ==
    /\ SidedInit
    /\ [][OnSide(ServerNext)]_sidedVars
    /\ WF_sidedVars(OnSide(Purge /\ Remember))

==============================================================================
