----------------------------- MODULE CursorFile -----------------------------
(***************************************************************************)
(* LoadCursor and SaveCursor of pkg/cursor.go, system call by system call. *)
(* SaveCursor writes <path>.tmp with os.WriteFile - open and truncate,     *)
(* write - and renames it to <path>; LoadCursor reads <path> with          *)
(* os.ReadFile - open, read.  The file system is external: two names, and  *)
(* files that live on while somebody has them open.                        *)
(*                                                                         *)
(* Of a file's content only its size and whether it is one whole cursor    *)
(* matter; anything else does not parse, and LoadCursor takes a file that  *)
(* does not parse for a cold start.                                        *)
(***************************************************************************)
EXTENDS Naturals

CONSTANTS
    Pollers,      \* the Poll calls of the program
    Savers,       \* those that come as far as SaveCursor
    Values,       \* the cursors that are saved
    Size,         \* the length of each as JSON
    Inodes,       \* the files there can be
    NoInode,      \* a name that names no file; a poller that has none open
    ColdStart,    \* LoadCursor's answer for a missing or corrupt file
    Corrupt       \* content that does not parse

ASSUME CursorFileAssumption ==
    /\ Savers \subseteq Pollers
    /\ Size \in [Values -> Nat \ {0}]
    /\ NoInode \notin Inodes
    /\ ColdStart \notin Values
    /\ Corrupt \notin Values

VARIABLES
    path,         \* the file named <path>
    tmp,          \* the file named <path>.tmp
    content,      \* what each file holds
    pc,           \* where each poller is
    fd,           \* the file each poller has open
    data,         \* the cursor each poller saves
    loaded        \* what each poller's last LoadCursor returned

vars == <<path, tmp, content, pc, fd, data, loaded>>

Content == [data : Values \cup {Corrupt}, size : Nat]

\* Every variable has its type, and a poller in a call has its file open.
TypeOK ==
    /\ path \in Inodes \cup {NoInode}
    /\ tmp \in Inodes \cup {NoInode}
    /\ content \in [Inodes -> Content]
    /\ pc \in [Pollers -> {"idle", "read", "write", "rename"}]
    /\ fd \in [Pollers -> Inodes \cup {NoInode}]
    /\ data \in [Pollers -> Values \cup {ColdStart}]
    /\ loaded \in [Pollers -> Values \cup {ColdStart}]
    /\ \A w \in Pollers : pc[w] \in {"read", "write"} => fd[w] \in Inodes
    /\ \A w \in Pollers : pc[w] \in {"write", "rename"} => data[w] \in Values

-----------------------------------------------------------------------------
(***************************************************************************)
(* Contents.                                                               *)
(***************************************************************************)

\* json.Unmarshal, with the cold start for what it rejects.
Parse(c) == IF c.data \in Values THEN c.data ELSE ColdStart

\* Mutation of Truncated: no O_TRUNC.
Untouched(c) == c

\* O_TRUNC: an empty file does not parse.
Truncated(c) == [data |-> Corrupt, size |-> 0]

\* A write from offset 0: what was longer keeps its tail.
Written(c, v) ==
    IF c.size > Size[v] THEN [data |-> Corrupt, size |-> c.size]
    ELSE [data |-> v, size |-> Size[v]]

\* A write that stops after n bytes.
Cut(c, n) == [data |-> Corrupt, size |-> IF c.size > n THEN c.size ELSE n]

FreeInodes == Inodes \ ({path, tmp} \cup {fd[w] : w \in Pollers})

\* Mutation of TmpFile: no O_CREATE.
ExistingTmpFile == {tmp}

\* The file os.WriteFile opens: the one named .tmp, or a new one.
TmpFile == IF tmp = NoInode THEN FreeInodes ELSE {tmp}

-----------------------------------------------------------------------------
(***************************************************************************)
(* LoadCursor.                                                             *)
(***************************************************************************)

LoadMissing(w) ==
    /\ pc[w] = "idle"
    /\ path = NoInode
    /\ loaded' = [loaded EXCEPT ![w] = ColdStart]
    /\ UNCHANGED <<path, tmp, content, pc, fd, data>>

OpenForLoad(w) ==
    /\ pc[w] = "idle"
    /\ path # NoInode
    /\ fd' = [fd EXCEPT ![w] = path]
    /\ pc' = [pc EXCEPT ![w] = "read"]
    /\ UNCHANGED <<path, tmp, content, data, loaded>>

Read(w) ==
    /\ pc[w] = "read"
    /\ loaded' = [loaded EXCEPT ![w] = Parse(content[fd[w]])]
    /\ fd' = [fd EXCEPT ![w] = NoInode]
    /\ pc' = [pc EXCEPT ![w] = "idle"]
    /\ UNCHANGED <<path, tmp, content, data>>

-----------------------------------------------------------------------------
(***************************************************************************)
(* SaveCursor.                                                             *)
(***************************************************************************)

OpenTmp(w, v) ==
    /\ pc[w] = "idle"
    /\ \E i \in TmpFile :
        /\ tmp' = i
        /\ fd' = [fd EXCEPT ![w] = i]
        /\ content' = [content EXCEPT ![i] = Truncated(content[i])]
    /\ data' = [data EXCEPT ![w] = v]
    /\ pc' = [pc EXCEPT ![w] = "write"]
    /\ UNCHANGED <<path, loaded>>

WriteTmp(w) ==
    /\ pc[w] = "write"
    /\ content' = [content EXCEPT ![fd[w]] = Written(content[fd[w]], data[w])]
    /\ fd' = [fd EXCEPT ![w] = NoInode]
    /\ pc' = [pc EXCEPT ![w] = "rename"]
    /\ UNCHANGED <<path, tmp, data, loaded>>

\* No space left, an I/O error: SaveCursor returns, the rest of .tmp stays.
WriteFails(w) ==
    /\ pc[w] = "write"
    /\ \E n \in 0 .. Size[data[w]] - 1 :
        content' = [content EXCEPT ![fd[w]] = Cut(content[fd[w]], n)]
    /\ fd' = [fd EXCEPT ![w] = NoInode]
    /\ data' = [data EXCEPT ![w] = ColdStart]
    /\ pc' = [pc EXCEPT ![w] = "idle"]
    /\ UNCHANGED <<path, tmp, loaded>>

\* The rename moves whatever file the name .tmp has by now.
Rename(w) ==
    /\ pc[w] = "rename"
    /\ tmp # NoInode
    /\ path' = tmp
    /\ tmp' = NoInode
    /\ data' = [data EXCEPT ![w] = ColdStart]
    /\ pc' = [pc EXCEPT ![w] = "idle"]
    /\ UNCHANGED <<content, fd, loaded>>

\* The name is gone, or the rename fails for another reason.
RenameFails(w) ==
    /\ pc[w] = "rename"
    /\ data' = [data EXCEPT ![w] = ColdStart]
    /\ pc' = [pc EXCEPT ![w] = "idle"]
    /\ UNCHANGED <<path, tmp, content, fd, loaded>>

\* The process ends anywhere in a load or a save, and starts again.
Crash ==
    /\ pc' = [w \in Pollers |-> "idle"]
    /\ fd' = [w \in Pollers |-> NoInode]
    /\ data' = [w \in Pollers |-> ColdStart]
    /\ loaded' = [w \in Pollers |-> ColdStart]
    /\ UNCHANGED <<path, tmp, content>>

-----------------------------------------------------------------------------
Init ==
    /\ path = NoInode
    /\ tmp = NoInode
    /\ content = [i \in Inodes |-> [data |-> Corrupt, size |-> 0]]
    /\ pc = [w \in Pollers |-> "idle"]
    /\ fd = [w \in Pollers |-> NoInode]
    /\ data = [w \in Pollers |-> ColdStart]
    /\ loaded = [w \in Pollers |-> ColdStart]

Next ==
    \/ \E w \in Pollers : LoadMissing(w) \/ OpenForLoad(w) \/ Read(w)
    \/ \E w \in Savers :
        \/ \E v \in Values : OpenTmp(w, v)
        \/ WriteTmp(w) \/ WriteFails(w) \/ Rename(w) \/ RenameFails(w)
    \/ Crash

Spec == Init /\ [][Next]_vars

-----------------------------------------------------------------------------
(***************************************************************************)
(* Properties.                                                             *)
(***************************************************************************)

\* The file is never visible in pieces: what <path> names is one whole
\* cursor (cursor.go:83, "atomically via a temp file + rename").
NoTornFile == path # NoInode => content[path].data \in Values

\* The cursor a load started now would answer with, and the answer of a load
\* that has opened its file.
Visible == IF path = NoInode THEN ColdStart ELSE Parse(content[path])

Answer == [w \in Pollers |->
            IF pc[w] = "read" THEN Parse(content[fd[w]]) ELSE loaded[w]]

\* With one saver the file is the register of AtomicCursor, through crashes,
\* failed writes and loads by anybody at any time.
Register == INSTANCE AtomicCursor WITH value <- Visible, answer <- Answer

ImplementsRegister == Register!Spec
=============================================================================
