------------------------------ MODULE ProcTCP ------------------------------
(***************************************************************************)
(* How internal/security/connections.go reads a table of /proc/1/net: the  *)
(* kernel prints each address as 32-bit words in the byte order of the     *)
(* machine (little-endian here), one word for IPv4 and four for IPv6, and  *)
(* the decoder puts the bytes back in network order.  A pair of hex digits *)
(* is the byte it stands for.  ConnWatcher takes the entries from here: its*)
(* ip is the remote address as text, its loopback is IsLoopback of the     *)
(* local one.                                                              *)
(***************************************************************************)
EXTENDS Naturals, Sequences, SequencesExt

CONSTANTS
    Addresses,   \* addresses sockets may have: sequences of 4 or 16 bytes
    Ports,       \* local ports; 0 is an unbound socket's
    MaxSockets   \* bound on the lines of a table

Byte == 0..255

ASSUME ProcAssumption ==
    /\ \A a \in Addresses : \E n \in {4, 16} : a \in [1..n -> Byte]
    /\ Ports \subseteq Nat /\ MaxSockets \in Nat

VARIABLES
    sockets,   \* the kernel's sockets, in the order of the lines
    table,     \* the lines
    parsed     \* tcpEntry values made of the lines read so far

procVars == <<sockets, table, parsed>>

------------------------------------------------------------------------------
Cut == <<>>   \* a line with fewer fields than it should have

\* The kernel: every word with its bytes the other way round.
Words(a) == [i \in 1..(Len(a) \div 4) |-> SubSeq(a, 4 * i - 3, 4 * i)]
Printed(a) == FlattenSeq([i \in DOMAIN Words(a) |-> Reverse(Words(a)[i])])

Line(s) == <<Printed(s.local), s.port, Printed(s.remote), s.state>>

\* Slip: the whole address is turned round, which is right for IPv4.
Decoded_Whole(h) == IF Len(h) \notin {4, 16} THEN <<>> ELSE Reverse(h)

\* decodeHexAddr, which gives nothing for what has any other length.
Decoded(h) ==
    IF Len(h) \notin {4, 16} THEN <<>>
    ELSE [i \in DOMAIN h |-> LET word == (i - 1) \div 4 IN h[4 * word + 4 - ((i - 1) % 4)]]

\* net.IP: an IPv4 address mapped into IPv6 is that IPv4 address.
Mapped(a) == Len(a) = 16 /\ SubSeq(a, 1, 12) = [i \in 1..12 |-> IF i < 11 THEN 0 ELSE 255]
Text(a) == IF Mapped(a) THEN SubSeq(a, 13, 16) ELSE a
IsLoopback(a) == IF Len(Text(a)) = 4 THEN Text(a)[1] = 127 ELSE a = [i \in 1..16 |-> IF i = 16 THEN 1 ELSE 0]

\* The body of the loop of readTCPEntries; a port that cannot be decoded is 0.
Entries(line) ==
    IF line = Cut \/ line[2] = 0 \/ Decoded(line[1]) = <<>> \/ Decoded(line[3]) = <<>> THEN <<>>
    ELSE <<[loopback |-> IsLoopback(Decoded(line[1])), port |-> line[2],
            remote |-> Text(Decoded(line[3])), state |-> line[4]]>>

Parsed(lines) == FlattenSeq([i \in DOMAIN lines |-> Entries(lines[i])])

Sockets == [local : Addresses, port : Ports, remote : Addresses, state : {"01", "0A"}]

ProcInit == sockets = <<>> /\ table = <<>> /\ parsed = <<>>

\* A socket is opened, and its line comes after the others.
Open(s) ==
    /\ Len(table) < MaxSockets
    /\ Len(s.local) = Len(s.remote)
    /\ sockets' = Append(sockets, s) /\ table' = Append(table, Line(s))
    /\ parsed' = <<>>

\* A line that is no socket's.
Garbage ==
    /\ Len(table) < MaxSockets
    /\ table' = Append(table, Cut)
    /\ parsed' = <<>>
    /\ UNCHANGED sockets

\* readTCPEntries: the entries of the lines after the header.
ReadTCPEntries ==
    /\ parsed' = Parsed(table)
    /\ UNCHANGED <<sockets, table>>

ProcNext == (\E s \in Sockets : Open(s)) \/ Garbage \/ ReadTCPEntries

ProcSpec == ProcInit /\ [][ProcNext]_procVars

------------------------------------------------------------------------------
\* A socket as those who keep the host would name it.
Named(s) ==
    [loopback |-> \/ Len(s.local) = 4 /\ s.local[1] = 127
                  \/ Mapped(s.local) /\ s.local[13] = 127
                  \/ Len(s.local) = 16 /\ s.local[16] = 1 /\ \A i \in 1..15 : s.local[i] = 0,
     port |-> s.port,
     remote |-> IF Mapped(s.remote) THEN SubSeq(s.remote, 13, 16) ELSE s.remote,
     state |-> s.state]

ProcTypeOK == sockets \in Seq(Sockets) /\ Len(table) <= MaxSockets

\* connections.go:121-182: the entries are the bound sockets, in their order,
\* with the peers they have and whether they can be reached from outside, in
\* both tables and whatever lines there are in between; a peer that comes over
\* an IPv4 socket and over a dual-stack one is the same peer.
EntriesAreTheSockets ==
    /\ ProcTypeOK
    /\ parsed # <<>> =>
         parsed = FlattenSeq([i \in DOMAIN sockets |->
                                 IF sockets[i].port = 0 THEN <<>> ELSE <<Named(sockets[i])>>])

==============================================================================
