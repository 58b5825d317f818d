-------------------------- MODULE CursorFile_proofs --------------------------
(***************************************************************************)
(* With one saver, the cursor file is the register of AtomicCursor: the    *)
(* names <path> and <path>.tmp never name the same file, a reader's file   *)
(* is not the one that is being written, and a saver about to rename finds *)
(* under .tmp what it wrote.  It takes one saver: with two of them, one    *)
(* can rename what the other has truncated.                                *)
(***************************************************************************)
EXTENDS CursorFile, TLAPS

OneSaver == \A w, v \in Savers : w = v

\* The two names are two files.
NamesDiffer == path = tmp => path = NoInode

\* Whoever is reading has a whole cursor open, and nobody writes to it.
ReadersSafe ==
    \A w \in Pollers : pc[w] = "read" =>
        fd[w] # tmp /\ content[fd[w]].data \in Values

\* A saver that writes has the file named .tmp open, and it is empty.
WritersEmpty ==
    \A w \in Savers : pc[w] = "write" =>
        tmp = fd[w] /\ content[tmp].size = 0

\* A saver that renames has its own cursor under that name.
RenamersReady ==
    \A w \in Savers : pc[w] = "rename" =>
        tmp \in Inodes /\ content[tmp].data = data[w]

FileInv ==
    /\ NoTornFile
    /\ NamesDiffer
    /\ ReadersSafe
    /\ WritersEmpty
    /\ RenamersReady

IInv == TypeOK /\ FileInv

-----------------------------------------------------------------------------
(***************************************************************************)
(* Contents.                                                               *)
(***************************************************************************)

\* What a write makes of a file's content is a content again.
LEMMA ContentsTyped ==
    ASSUME NEW c \in Content, NEW v \in Values
    PROVE  /\ Truncated(c) \in Content
           /\ Written(c, v) \in Content
           /\ \A n \in 0 .. Size[v] - 1 : Cut(c, n) \in Content
  <1>1. Size[v] \in Nat /\ c.size \in Nat
    BY CursorFileAssumption DEF Content
  <1> QED
    BY <1>1 DEF Content, Truncated, Written, Cut

\* A write into an empty file leaves the whole cursor (cursor.go:95): nothing
\* is longer than what is written.
LEMMA EmptyIsOverwritten ==
    ASSUME NEW c \in Content, c.size = 0, NEW v \in Values
    PROVE  Written(c, v).data = v
  <1>1. Size[v] \in Nat \ {0}
    BY CursorFileAssumption
  <1> QED
    BY <1>1 DEF Written

-----------------------------------------------------------------------------
(***************************************************************************)
(* Type correctness.                                                       *)
(***************************************************************************)

LEMMA InitType == Init => TypeOK
  BY CursorFileAssumption DEF Init, TypeOK, Content

LEMMA StepType == TypeOK /\ [Next]_vars => TypeOK'
  <1> SUFFICES ASSUME TypeOK, [Next]_vars PROVE TypeOK'
    OBVIOUS
  <1> USE CursorFileAssumption
  <1>1. ASSUME NEW w \in Pollers, LoadMissing(w) PROVE TypeOK'
    BY <1>1 DEF LoadMissing, TypeOK
  <1>2. ASSUME NEW w \in Pollers, OpenForLoad(w) PROVE TypeOK'
    BY <1>2 DEF OpenForLoad, TypeOK
  <1>3. ASSUME NEW w \in Pollers, Read(w) PROVE TypeOK'
    <2>1. Parse(content[fd[w]]) \in Values \cup {ColdStart}
      BY DEF Parse
    <2> QED
      BY <1>3, <2>1 DEF Read, TypeOK
  <1>4. ASSUME NEW w \in Savers, NEW v \in Values, OpenTmp(w, v) PROVE TypeOK'
    <2>1. PICK i \in TmpFile :
            /\ tmp' = i
            /\ fd' = [fd EXCEPT ![w] = i]
            /\ content' = [content EXCEPT ![i] = Truncated(content[i])]
      BY <1>4 DEF OpenTmp
    <2>2. i \in Inodes /\ w \in Pollers
      BY <2>1 DEF TmpFile, FreeInodes, TypeOK
    <2>3. Truncated(content[i]) \in Content
      BY <2>2, ContentsTyped DEF TypeOK
    <2>4. content' \in [Inodes -> Content]
      BY <2>1, <2>2, <2>3 DEF TypeOK
    <2> QED
      BY <1>4, <2>1, <2>2, <2>4 DEF OpenTmp, TypeOK
  <1>5. ASSUME NEW w \in Savers, WriteTmp(w) PROVE TypeOK'
    <2>1. w \in Pollers /\ fd[w] \in Inodes /\ data[w] \in Values
      BY <1>5 DEF WriteTmp, TypeOK
    <2>2. Written(content[fd[w]], data[w]) \in Content
      BY <2>1, ContentsTyped DEF TypeOK
    <2>3. content' \in [Inodes -> Content]
      BY <1>5, <2>1, <2>2 DEF WriteTmp, TypeOK
    <2> QED
      BY <1>5, <2>1, <2>3 DEF WriteTmp, TypeOK
  <1>6. ASSUME NEW w \in Savers, WriteFails(w) PROVE TypeOK'
    <2>1. w \in Pollers /\ fd[w] \in Inodes /\ data[w] \in Values
      BY <1>6 DEF WriteFails, TypeOK
    <2>2. PICK n \in 0 .. Size[data[w]] - 1 :
            content' = [content EXCEPT ![fd[w]] = Cut(content[fd[w]], n)]
      BY <1>6 DEF WriteFails
    <2>3. Cut(content[fd[w]], n) \in Content
      BY <2>1, <2>2, ContentsTyped DEF TypeOK
    <2>4. content' \in [Inodes -> Content]
      BY <2>1, <2>2, <2>3 DEF TypeOK
    <2> QED
      BY <1>6, <2>1, <2>4 DEF WriteFails, TypeOK
  <1>7. ASSUME NEW w \in Savers, Rename(w) \/ RenameFails(w) PROVE TypeOK'
    BY <1>7 DEF Rename, RenameFails, TypeOK
  <1>8. CASE Crash
    BY <1>8 DEF Crash, TypeOK
  <1>9. CASE UNCHANGED vars
    BY <1>9 DEF vars, TypeOK
  <1> QED
    BY <1>1, <1>2, <1>3, <1>4, <1>5, <1>6, <1>7, <1>8, <1>9 DEF Next

\* Every variable of CursorFile keeps its type and a poller in a call has its
\* file open, with any number of savers (cursor.go:40-110).
THEOREM TypeCorrect == Spec => []TypeOK
  BY InitType, StepType, PTL DEF Spec

-----------------------------------------------------------------------------
(***************************************************************************)
(* The two files of one saver.                                             *)
(***************************************************************************)

LEMMA InitFile == Init => FileInv
  BY CursorFileAssumption
  DEF Init, FileInv, NoTornFile, NamesDiffer, ReadersSafe, WritersEmpty,
      RenamersReady

\* The truncation, and a new file under .tmp, touch nothing that can be read.
LEMMA OpenTmpKeepsFiles ==
    ASSUME OneSaver, IInv, NEW w \in Savers, NEW v \in Values, OpenTmp(w, v)
    PROVE  FileInv'
  <1>1. PICK i \in TmpFile :
          /\ tmp' = i
          /\ fd' = [fd EXCEPT ![w] = i]
          /\ content' = [content EXCEPT ![i] = Truncated(content[i])]
    BY DEF OpenTmp
  <1>2. /\ i \in Inodes /\ w \in Pollers
        /\ path # NoInode => i # path
        /\ \A u \in Pollers : pc[u] = "read" => i # fd[u]
    BY <1>1, CursorFileAssumption
    DEF IInv, FileInv, TypeOK, TmpFile, FreeInodes, NamesDiffer, ReadersSafe
  <1>3. /\ content'[i].size = 0
        /\ \A j \in Inodes \ {i} : content'[j] = content[j]
    BY <1>1, <1>2 DEF IInv, TypeOK, Truncated
  <1>4. /\ pc[w] = "idle" /\ pc' = [pc EXCEPT ![w] = "write"]
        /\ path' = path
        /\ \A u \in Savers : u = w
    BY DEF OpenTmp, OneSaver
  <1>5. NoTornFile' /\ NamesDiffer'
    BY <1>1, <1>2, <1>3, <1>4, CursorFileAssumption
    DEF IInv, FileInv, TypeOK, NoTornFile, NamesDiffer
  <1>6. ReadersSafe'
    BY <1>1, <1>2, <1>3, <1>4 DEF IInv, FileInv, TypeOK, ReadersSafe
  <1>7. WritersEmpty' /\ RenamersReady'
    BY <1>1, <1>2, <1>3, <1>4 DEF IInv, TypeOK, WritersEmpty, RenamersReady
  <1> QED
    BY <1>5, <1>6, <1>7 DEF FileInv

\* A write changes the file named .tmp only; the whole cursor is in it, or
\* nobody will rename it.
LEMMA WriteKeepsFiles ==
    ASSUME OneSaver, IInv, NEW w \in Savers, WriteTmp(w) \/ WriteFails(w)
    PROVE  FileInv'
  <1>1. /\ w \in Pollers /\ pc[w] = "write" /\ fd[w] = tmp /\ tmp \in Inodes
        /\ data[w] \in Values /\ content[tmp].size = 0 /\ content[tmp] \in Content
    BY CursorFileAssumption
    DEF IInv, FileInv, TypeOK, WritersEmpty, WriteTmp, WriteFails
  <1>2. /\ \A j \in Inodes \ {tmp} : content'[j] = content[j]
        /\ fd' = [fd EXCEPT ![w] = NoInode]
        /\ path' = path /\ tmp' = tmp
        /\ \A u \in Savers : u = w
        /\ pc' \in {[pc EXCEPT ![w] = "rename"], [pc EXCEPT ![w] = "idle"]}
    BY <1>1 DEF IInv, TypeOK, WriteTmp, WriteFails, OneSaver
  <1>3. NoTornFile' /\ NamesDiffer'
    BY <1>2 DEF IInv, FileInv, TypeOK, NoTornFile, NamesDiffer
  <1>4. ReadersSafe'
    BY <1>1, <1>2 DEF IInv, FileInv, TypeOK, ReadersSafe
  <1>5. WritersEmpty'
    BY <1>1, <1>2 DEF IInv, TypeOK, WritersEmpty
  <1>6. ASSUME pc'[w] = "rename" PROVE content'[tmp].data = data'[w]
    <2>1. /\ content' = [content EXCEPT ![tmp] = Written(content[tmp], data[w])]
          /\ data' = data
      BY <1>1, <1>6 DEF WriteTmp, WriteFails, IInv, TypeOK
    <2> QED
      BY <1>1, <2>1, EmptyIsOverwritten DEF IInv, TypeOK
  <1>7. RenamersReady'
    BY <1>1, <1>2, <1>6 DEF RenamersReady
  <1> QED
    BY <1>3, <1>4, <1>5, <1>7 DEF FileInv

LEMMA StepFile == OneSaver /\ IInv /\ [Next]_vars => FileInv'
  <1> SUFFICES ASSUME OneSaver, IInv, [Next]_vars PROVE FileInv'
    OBVIOUS
  <1> USE DEF NoTornFile, NamesDiffer, ReadersSafe, WritersEmpty, RenamersReady
  <1>1. ASSUME NEW w \in Pollers, LoadMissing(w) PROVE FileInv'
    BY <1>1 DEF LoadMissing, IInv, FileInv
  <1>2. ASSUME NEW w \in Pollers, OpenForLoad(w) PROVE FileInv'
    BY <1>2 DEF OpenForLoad, IInv, FileInv, TypeOK
  <1>3. ASSUME NEW w \in Pollers, Read(w) PROVE FileInv'
    BY <1>3 DEF Read, IInv, FileInv, TypeOK
  <1>4. ASSUME NEW w \in Savers, NEW v \in Values, OpenTmp(w, v) PROVE FileInv'
    BY <1>4, OpenTmpKeepsFiles
  <1>5. ASSUME NEW w \in Savers, WriteTmp(w) \/ WriteFails(w) PROVE FileInv'
    BY <1>5, WriteKeepsFiles
  <1>6. ASSUME NEW w \in Savers, Rename(w) PROVE FileInv'
    <2>1. tmp \in Inodes /\ content[tmp].data \in Values /\ w \in Pollers
      BY <1>6, CursorFileAssumption DEF Rename, IInv, FileInv, TypeOK
    <2>2. \A u \in Savers : u = w
      BY DEF OneSaver
    <2> QED
      BY <1>6, <2>1, <2>2, CursorFileAssumption DEF Rename, IInv, FileInv, TypeOK
  <1>7. ASSUME NEW w \in Savers, RenameFails(w) PROVE FileInv'
    BY <1>7, CursorFileAssumption DEF RenameFails, IInv, FileInv, TypeOK
  <1>8. CASE Crash
    BY <1>8, CursorFileAssumption DEF Crash, IInv, FileInv
  <1>9. CASE UNCHANGED vars
    BY <1>9 DEF vars, IInv, FileInv
  <1> QED
    BY <1>1, <1>2, <1>3, <1>4, <1>5, <1>6, <1>7, <1>8, <1>9 DEF Next

\* The file is never visible in pieces, whatever fails or dies, as long as one
\* poller saves (cursor.go:83, "atomically via a temp file + rename").
THEOREM OneSaverNeverTears ==
    ASSUME OneSaver PROVE Spec => []NoTornFile
  <1>1. Init => IInv
    BY InitType, InitFile DEF IInv
  <1>2. IInv /\ [Next]_vars => IInv'
    BY OneSaver, StepType, StepFile DEF IInv
  <1>3. IInv => NoTornFile
    BY DEF IInv, FileInv
  <1> QED
    BY <1>1, <1>2, <1>3, PTL DEF Spec

-----------------------------------------------------------------------------
(***************************************************************************)
(* The refinement.                                                         *)
(***************************************************************************)

LEMMA InitImplements == Init => Register!Init
  BY DEF Init, Register!Init, Visible, Answer

\* A step of the file system that leaves <path> alone, and what is in it.
LEMMA VisibleStays ==
    ASSUME path' = path, path # NoInode => content'[path] = content[path]
    PROVE  Visible' = Visible
  BY DEF Visible, Parse

LEMMA StepImplements ==
    ASSUME OneSaver, IInv, IInv', [Next]_vars
    PROVE  [Register!Next]_<<Visible, Answer>>
  <1> DEFINE Stutters == UNCHANGED <<Visible, Answer>>
  <1>1. ASSUME NEW w \in Pollers, LoadMissing(w) PROVE Register!Load(w)
    <2>1. Visible = ColdStart /\ Visible' = Visible
      BY <1>1 DEF LoadMissing, Visible, Parse
    <2>2. Answer' = [Answer EXCEPT ![w] = ColdStart]
      BY <1>1 DEF LoadMissing, Answer, IInv, TypeOK
    <2> QED
      BY <2>1, <2>2 DEF Register!Load
  <1>2. ASSUME NEW w \in Pollers, OpenForLoad(w) PROVE Register!Load(w)
    <2>1. Visible = Parse(content[path]) /\ Visible' = Visible
      BY <1>2 DEF OpenForLoad, Visible, Parse
    <2>2. Answer' = [Answer EXCEPT ![w] = Parse(content[path])]
      BY <1>2 DEF OpenForLoad, Answer, Parse, IInv, TypeOK
    <2> QED
      BY <2>1, <2>2 DEF Register!Load
  <1>3. ASSUME NEW w \in Pollers, Read(w) PROVE Stutters
    <2>1. Visible' = Visible
      BY <1>3 DEF Read, Visible, Parse
    <2>2. Answer' = Answer
      BY <1>3 DEF Read, Answer, Parse, IInv, TypeOK
    <2> QED
      BY <2>1, <2>2
  <1>4. ASSUME NEW w \in Savers, NEW v \in Values, OpenTmp(w, v) PROVE Stutters
    <2>1. PICK i \in TmpFile :
            /\ tmp' = i
            /\ fd' = [fd EXCEPT ![w] = i]
            /\ content' = [content EXCEPT ![i] = Truncated(content[i])]
      BY <1>4 DEF OpenTmp
    <2>2. /\ i \in Inodes /\ w \in Pollers
          /\ path # NoInode => i # path
          /\ \A u \in Pollers : pc[u] = "read" => i # fd[u]
      BY <2>1, CursorFileAssumption
      DEF IInv, FileInv, TypeOK, TmpFile, FreeInodes, NamesDiffer, ReadersSafe
    <2>3. Visible' = Visible
      BY <1>4, <2>1, <2>2, VisibleStays DEF OpenTmp, IInv, TypeOK
    <2>4. Answer' = Answer
      BY <1>4, <2>1, <2>2 DEF OpenTmp, Answer, Parse, IInv, TypeOK
    <2> QED
      BY <2>3, <2>4
  <1>5. ASSUME NEW w \in Savers, WriteTmp(w) \/ WriteFails(w) PROVE Stutters
    <2>1. /\ fd[w] = tmp /\ tmp \in Inodes /\ w \in Pollers
          /\ pc[w] = "write" /\ path' = path /\ loaded' = loaded
          /\ \A j \in Inodes \ {tmp} : content'[j] = content[j]
          /\ fd' = [fd EXCEPT ![w] = NoInode]
          /\ pc' \in {[pc EXCEPT ![w] = "rename"], [pc EXCEPT ![w] = "idle"]}
      BY <1>5, CursorFileAssumption
      DEF IInv, FileInv, TypeOK, WritersEmpty, WriteTmp, WriteFails
    <2>2. Visible' = Visible
      BY <2>1, VisibleStays DEF IInv, FileInv, TypeOK, NamesDiffer
    <2>3. Answer' = Answer
      BY <2>1 DEF Answer, Parse, IInv, FileInv, TypeOK, ReadersSafe
    <2> QED
      BY <2>2, <2>3
  <1>6. ASSUME NEW w \in Savers, Rename(w) PROVE Register!Save(data[w])
    <2>1. tmp \in Inodes /\ content[tmp].data = data[w] /\ data[w] \in Values
      BY <1>6 DEF Rename, IInv, FileInv, TypeOK, RenamersReady
    <2>2. Visible' = data[w]
      BY <1>6, <2>1, CursorFileAssumption DEF Rename, Visible, Parse
    <2>3. Answer' = Answer
      BY <1>6 DEF Rename, Answer, Parse, IInv, TypeOK
    <2> QED
      BY <2>2, <2>3 DEF Register!Save
  <1>7. ASSUME NEW w \in Savers, RenameFails(w) PROVE Stutters
    BY <1>7 DEF RenameFails, Visible, Answer, Parse, IInv, TypeOK
  <1>8. CASE Crash
    <2>1. Visible' = Visible /\ Answer' = [w \in Pollers |-> ColdStart]
      BY <1>8 DEF Crash, Visible, Answer, Parse
    <2> QED
      BY <2>1 DEF Register!Next, Register!Forget
  <1>9. CASE UNCHANGED vars
    BY <1>9 DEF vars, Visible, Answer, Parse
  <1>10. ASSUME NEW w \in Savers, Rename(w) PROVE Register!Next
    <2>1. data[w] \in Values
      BY <1>10 DEF Rename, IInv, TypeOK, FileInv, RenamersReady, CursorFileAssumption
    <2> QED
      BY <1>6, <1>10, <2>1 DEF Register!Next
  <1> QED
    BY <1>1, <1>2, <1>3, <1>4, <1>5, <1>7, <1>8, <1>9, <1>10
    DEF Next, Register!Next

\* As long as one poller saves, the cursor file is a register (cursor.go:83):
\* through crashes, failed writes and loads by anybody at any time, a save
\* replaces the cursor as a whole and a load answers with that of one moment.
THEOREM OneSaverIsAtomic ==
    ASSUME OneSaver PROVE Spec => ImplementsRegister
  <1>1. Init => IInv /\ Register!Init
    BY InitType, InitFile, InitImplements DEF IInv
  <1>2. IInv /\ [Next]_vars => IInv'
    BY OneSaver, StepType, StepFile DEF IInv
  <1>3. IInv /\ IInv' /\ [Next]_vars => [Register!Next]_<<Visible, Answer>>
    BY OneSaver, StepImplements
  <1> QED
    BY <1>1, <1>2, <1>3, PTL DEF Spec, ImplementsRegister, Register!Spec
=============================================================================
