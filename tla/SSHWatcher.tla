----------------------------- MODULE SSHWatcher -----------------------------
(***************************************************************************)
(* The SSH log watcher of internal/security/ssh.go, which tails the auth   *)
(* log by polling, beside the logger that writes it and the rotation that  *)
(* replaces it.  poll() makes separate system calls (Stat, perhaps in      *)
(* resolvePath first, Open, Read), so the path may name another file at    *)
(* each of them.                                                           *)
(*                                                                         *)
(* Lines are numbered in the order they are written.  The logger writes a  *)
(* line at once, or in two parts when its buffer is full in the middle of  *)
(* one; a part counts as one unit of size, whatever its length.  Every     *)
(* whole line is an sshd event (parseSSHLine drops the others).            *)
(***************************************************************************)
EXTENDS Naturals, Sequences, SequencesExt

CONSTANTS
    MaxLines,   \* bound on the lines written
    MaxInodes,  \* bound on the log files created
    CutLines    \* bound: the lines that may be cut

ASSUME SSHAssumption == MaxLines \in Nat /\ MaxInodes \in Nat \ {0} /\ CutLines \subseteq 1..MaxLines

VARIABLES
    path,      \* the inode the log's path names; NoFile while there is none
    content,   \* inode -> lines in it
    logfd,     \* the inode the logger appends to
    line,      \* the next line, or the one of which a part is written
    cut,       \* where that line was cut; Whole when it was not
    fresh,     \* the next inode
    w,         \* the watcher: found (path # ""), inode, offset
    poll,      \* where poll() has got to, and what it holds
    reported,  \* lines given to the event log, in order
    known,     \* history: the watcher has found the log since it started
    crossed    \* history: the file was replaced or truncated during a poll

sshVars == <<path, content, logfd, line, cut, fresh, w, poll, reported, known, crossed>>

NoFile == 0
Inodes == 1..MaxInodes
Waiting == [pc |-> "wait"]
Lost == [found |-> FALSE, inode |-> NoFile, offset |-> 0]

\* Where a line is cut: before "sshd[", so that its tail alone is an event;
\* after the port, so that its head alone is one; or between, and neither is.
Cuts == {"early", "middle", "late"}
Whole == "whole"
Units == [line: 1..MaxLines, part: {"line", "head", "tail"}, cut: Cuts \cup {Whole}]

Min2(a, b) == IF a < b THEN a ELSE b

------------------------------------------------------------------------------
SSHInit ==
    /\ path \in {NoFile, 1}
    /\ content = [i \in Inodes |-> <<>>]
    /\ logfd = path
    /\ line = 1 /\ cut = Whole /\ fresh = 2
    /\ w = Lost
    /\ poll = Waiting
    /\ reported = <<>>
    /\ known = FALSE /\ crossed = FALSE

------------------------------------------------------------------------------
(* the logger and the rotation *)

worldVars == <<path, content, logfd, line, cut, fresh>>
watchVars == <<w, poll, reported, known>>

Cross == crossed' = (crossed \/ poll.pc # "wait")

Write(part, where) ==
    /\ line <= MaxLines /\ logfd # NoFile
    /\ content' = [content EXCEPT ![logfd] = Append(@, [line |-> line, part |-> part, cut |-> where])]
    /\ UNCHANGED <<path, logfd, fresh, watchVars, crossed>>

WriteLine == cut = Whole /\ Write("line", Whole) /\ line' = line + 1 /\ UNCHANGED cut

WriteHead == cut = Whole /\ line \in CutLines /\ \E c \in Cuts : Write("head", c) /\ cut' = c /\ UNCHANGED line

WriteTail == cut # Whole /\ Write("tail", cut) /\ cut' = Whole /\ line' = line + 1

\* logrotate renames the log away; the logger still writes to the old file.
MoveAway ==
    /\ path # NoFile
    /\ path' = NoFile
    /\ Cross
    /\ UNCHANGED <<content, logfd, line, cut, fresh, watchVars>>

\* A new, empty file appears at the path.
CreateFresh ==
    /\ path = NoFile
    /\ fresh <= MaxInodes
    /\ path' = fresh /\ fresh' = fresh + 1
    /\ Cross
    /\ UNCHANGED <<content, logfd, line, cut, watchVars>>

\* The logger empties its buffer before it closes the old file.
Reopen ==
    /\ path # NoFile /\ logfd # path /\ cut = Whole
    /\ logfd' = path
    /\ UNCHANGED <<path, content, line, cut, fresh, watchVars, crossed>>

\* copytruncate
Truncate ==
    /\ path # NoFile /\ content[path] # <<>>
    /\ content' = [content EXCEPT ![path] = <<>>]
    /\ Cross
    /\ UNCHANGED <<path, logfd, line, cut, fresh, watchVars>>

------------------------------------------------------------------------------
(* poll() *)

Size(i) == Len(content[i])

\* Slip: a log just found is reported from its start.
Resolve_FromStart ==
    /\ poll.pc = "wait" /\ ~w.found /\ path # NoFile
    /\ w' = [found |-> TRUE, inode |-> path, offset |-> 0]
    /\ poll' = [pc |-> "stat"]
    /\ known' = TRUE
    /\ UNCHANGED <<worldVars, reported, crossed>>

\* resolvePath: start from the current end of the file.
Resolve ==
    /\ poll.pc = "wait" /\ ~w.found /\ path # NoFile
    /\ w' = [found |-> TRUE, inode |-> path, offset |-> Size(path)]
    /\ poll' = [pc |-> "stat"]
    /\ known' = TRUE
    /\ UNCHANGED <<worldVars, reported, crossed>>

AtStat == w.found /\ poll.pc \in {"wait", "stat"}

StatFails ==
    /\ AtStat /\ path = NoFile
    /\ w' = [w EXCEPT !.found = FALSE]
    /\ poll' = Waiting
    /\ UNCHANGED <<worldVars, reported, known, crossed>>

\* Slip: only a shrinking file counts as rotated.
StartOffset_BySize == IF Size(path) < w.offset THEN 0 ELSE w.offset

\* A new inode, or a file shorter than what was read, starts over.
StartOffset ==
    IF path # w.inode \/ Size(path) < w.offset THEN 0 ELSE w.offset

Stat ==
    /\ AtStat /\ path # NoFile
    /\ w' = [w EXCEPT !.inode = path, !.offset = StartOffset]
    /\ poll' = IF Size(path) > StartOffset
               THEN [pc |-> "open", want |-> Size(path) - StartOffset]
               ELSE Waiting
    /\ UNCHANGED <<worldVars, reported, known, crossed>>

OpenFails ==
    /\ poll.pc = "open" /\ path = NoFile
    /\ poll' = Waiting
    /\ UNCHANGED <<worldVars, w, reported, known, crossed>>

OpenFile ==
    /\ poll.pc = "open" /\ path # NoFile
    /\ poll' = [pc |-> "read", want |-> poll.want, fd |-> path]
    /\ UNCHANGED <<worldVars, w, reported, known, crossed>>

\* What lies between the offset and the size Stat saw, in the file now open.
Unread ==
    SubSeq(content[poll.fd], w.offset + 1, Min2(w.offset + poll.want, Size(poll.fd)))

\* parseSSHLine on the text that holds unit i of what was read: a head and its
\* tail read together are the line.
Tells(s, i) ==
    \/ s[i].part = "line"
    \/ s[i].part = "head" /\ (s[i].cut = "late" \/ i < Len(s))
    \/ s[i].part = "tail" /\ s[i].cut = "early" /\ i = 1

\* The events in what was read, by their lines.
Events(s) ==
    LET upto[i \in 0..Len(s)] ==
            IF i = 0 THEN <<>>
            ELSE IF Tells(s, i) THEN Append(upto[i - 1], s[i].line)
            ELSE upto[i - 1]
    IN  upto[Len(s)]

Read ==
    /\ poll.pc = "read"
    /\ reported' = reported \o Events(Unread)
    /\ w' = [w EXCEPT !.offset = @ + Len(Unread)]
    /\ poll' = Waiting
    /\ UNCHANGED <<worldVars, known, crossed>>

PollStep == Resolve \/ StatFails \/ Stat \/ OpenFails \/ OpenFile \/ Read

\* A new process finds the log anew; the events reported are on disk.
RestartSSH ==
    /\ w' = Lost /\ poll' = Waiting /\ known' = FALSE
    /\ UNCHANGED <<worldVars, reported, crossed>>

SSHNext ==
    \/ WriteLine \/ WriteHead \/ WriteTail
    \/ MoveAway \/ CreateFresh \/ Reopen \/ Truncate
    \/ PollStep
    \/ RestartSSH

\* The ticker keeps polling and system calls return.
SSHSpec == SSHInit /\ [][SSHNext]_sshVars /\ WF_sshVars(PollStep)

------------------------------------------------------------------------------
SSHTypeOK ==
    /\ path \in Inodes \cup {NoFile} /\ logfd \in Inodes \cup {NoFile}
    /\ line \in 1..(MaxLines + 1) /\ cut \in Cuts \cup {Whole}
    /\ \A i \in Inodes : \A k \in DOMAIN content[i] : content[i][k] \in Units
    /\ w \in [found: BOOLEAN, inode: Inodes \cup {NoFile}, offset: 0..(2 * MaxLines)]
    /\ poll \in [pc: {"wait", "stat"}]
               \cup [pc: {"open"}, want: 1..(2 * MaxLines)]
               \cup [pc: {"read"}, want: 1..(2 * MaxLines), fd: Inodes]
    /\ reported \in Seq(1..MaxLines)

\* As long as no poll straddles a rotation, each line is reported at most once
\* and in order, across rotations, truncations, restarts and absent files, and
\* however it is cut.
NoReplay == SSHTypeOK /\ (~crossed => \A i, j \in DOMAIN reported : i < j => reported[i] < reported[j])

InFile(n) == path # NoFile /\ \E k \in DOMAIN content[path] : content[path][k].line = n

\* A whole line past unit k of the file at the path.
WholePast(n, k) ==
    \E i \in (k + 1)..Size(path) :
       LET u == content[path][i]
       IN  u.line = n /\ (u.part = "line" \/ (u.part = "head" /\ i < Size(path)))

CutInTheMiddle(n) == \E k \in DOMAIN content[path] : content[path][k].line = n /\ content[path][k].cut = "middle"

\* Lines the watcher has before it: past its offset in the file it follows, or
\* anywhere in one that took that file's place.
Ahead(n) == w.found /\ path # NoFile /\ WholePast(n, IF path = w.inode THEN w.offset ELSE 0)

\* Every line ahead of the watcher is reported, whatever a poll straddles, unless
\* its file goes or is truncated, the path is seen empty, or the process restarts.
\* One cut in the middle is, if it is whole before the poll begins.
FollowedIsReported ==
    \A n \in 1..MaxLines :
       (Ahead(n) /\ (poll.pc = "wait" \/ ~CutInTheMiddle(n))) ~>
          (n \in ToSet(reported) \/ ~InFile(n) \/ ~w.found)

\* The type's comment (ssh.go:22-27): a log with another inode than the one that
\* was followed is read from its start.
RotatedIsReadFromStart ==
    \A n \in 1..MaxLines :
       (known /\ poll.pc = "wait" /\ path \notin {NoFile, w.inode} /\ WholePast(n, 0)) ~>
          (n \in ToSet(reported) \/ ~InFile(n) \/ ~known)

==============================================================================
