----------------------------- MODULE MCSecurity -----------------------------
(***************************************************************************)
(* What watches over the host and the dashboard: the event log both        *)
(* watchers write to, the connection watcher and the tables it reads, the  *)
(* SSH watcher and the login limiter.  None reads what another keeps, so   *)
(* their properties hold side by side exactly if each holds alone: part    *)
(* picks the one that moves, and the others rest in their initial states.  *)
(*                                                                         *)
(* Connections: two from one address to an explicit port in the second     *)
(* table, one from another in the first table to a port that is watched    *)
(* only while a service of the second listens on it, and one to a port     *)
(* whose service is on loopback only.                                      *)
(* Tables: a loopback address of each kind, one that is loopback backwards,*)
(* one mapped into IPv6, and one of sixteen different bytes.               *)
(* Limiter: two requests at once over two pairs, so that one can be swept  *)
(* while the other is counted; one failure does not block and two do.      *)
(***************************************************************************)
EXTENDS EventLog, ConnWatcher, SSHWatcher, LoginLimiter, ProcTCP

VARIABLES part

securityVars == <<part, logVars, connVars, sshVars, limVars, procVars>>

Connection(id, ip, port, file) == [id |-> id, ip |-> ip, port |-> port, file |-> file]
Service(port, loopback, file) == [port |-> port, loopback |-> loopback, file |-> file]
MCConns == {Connection(1, "a", 22, "tcp6"), Connection(2, "a", 22, "tcp6"),
            Connection(3, "b", 80, "tcp"), Connection(4, "a", 5432, "tcp")}
MCServices == {Service(80, FALSE, "tcp6"), Service(5432, TRUE, "tcp")}

MCAddresses ==
    {<<127, 0, 0, 1>>, <<10, 0, 0, 127>>, [i \in 1..16 |-> i],
     <<0, 0, 0, 0, 0, 0, 0, 0, 0, 0, 255, 255, 10, 0, 0, 127>>, [i \in 1..16 |-> IF i = 16 THEN 1 ELSE 0]}

SecurityInit ==
    /\ part \in {"log", "conn", "ssh", "limiter", "table"}
    /\ LogInit /\ ConnInit /\ SSHInit /\ LimInit /\ ProcInit
    /\ path # NoFile => part = "ssh"

SSHMoves(A) == part = "ssh" /\ A /\ UNCHANGED <<part, logVars, connVars, limVars, procVars>>

LimiterMoves(A) == part = "limiter" /\ A /\ UNCHANGED <<part, logVars, connVars, sshVars, procVars>>

SecurityNext ==
    \/ part = "log" /\ LogNext /\ UNCHANGED <<part, connVars, sshVars, limVars, procVars>>
    \/ part = "conn" /\ ConnNext /\ UNCHANGED <<part, logVars, sshVars, limVars, procVars>>
    \/ part = "table" /\ ProcNext /\ UNCHANGED <<part, logVars, connVars, sshVars, limVars>>
    \/ SSHMoves(SSHNext)
    \/ LimiterMoves(LimNext)

\* The fairness of SSHSpec and LimSpec.
SecuritySpec ==
    /\ SecurityInit /\ [][SecurityNext]_securityVars
    /\ WF_securityVars(SSHMoves(PollStep))
    /\ WF_securityVars(LimiterMoves(TimePasses))

==============================================================================
