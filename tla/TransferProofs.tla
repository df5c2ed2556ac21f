--------------------------- MODULE TransferProofs ---------------------------
(***************************************************************************)
(* What holds of one file's transfers for every file length, every listed  *)
(* size and both back ends.  The type invariant is inductive as it stands. *)
(* That the local file is always a beginning of the served one is not: it  *)
(* needs what the code keeps silently between its steps, that the offset   *)
(* asked for is the size of the file that was opened, and that the rest of *)
(* a reply starts where the file ends unless a restart is due.             *)
(***************************************************************************)
EXTENDS Transfer, SequenceTheorems, TLAPS

-----------------------------------------------------------------------------
(* The blocks of a reply.                                                   *)

(* A reply from block k on is a sequence of file blocks.                    *)
LEMMA FileFromType == \A k \in Nat : FileFrom(k) \in Seq(Blocks)
  <1> TAKE k \in Nat
  <1>1. CASE k <= FileLen
    <2>1. FileLen - k \in Nat
      BY <1>1, TransferAssumption
    <2>2. \A i \in 1..(FileLen - k) : k + i \in Blocks
      BY <1>1, TransferAssumption DEF Blocks
    <2>. QED
      BY <2>1, <2>2 DEF FileFrom
  <1>2. CASE k > FileLen
    <2>1. 1..(FileLen - k) = 1..0
      BY <1>2, TransferAssumption
    <2>2. FileFrom(k) = <<>>
      BY <2>1 DEF FileFrom
    <2>. QED
      BY <2>2
  <1>. QED
    BY <1>1, <1>2, TransferAssumption

(* An error page is a sequence of foreign blocks.                           *)
LEMMA ErrorBodiesType == ASSUME NEW b \in ErrorBodies PROVE b \in Seq(Blocks)
  <1>1. <<>> \in Seq(Blocks)
    OBVIOUS
  <1>2. Page \in Seq(Blocks)
    BY TransferAssumption DEF Page, Blocks
  <1>3. b = <<>> \/ b = Page
    BY DEF ErrorBodies
  <1>. QED
    BY <1>1, <1>2, <1>3

(* What is left of a reply after its first block starts one block later.    *)
LEMMA FileFromStep ==
    ASSUME NEW k \in Nat, FileFrom(k) # <<>>
    PROVE  /\ k < FileLen
           /\ Head(FileFrom(k)) = k + 1
           /\ Tail(FileFrom(k)) = FileFrom(k + 1)
  <1>1. k < FileLen
    <2>1. SUFFICES ASSUME FileLen <= k PROVE FALSE
      BY TransferAssumption
    <2>2. 1..(FileLen - k) = 1..0
      BY <2>1, TransferAssumption
    <2>. QED
      BY <2>2 DEF FileFrom
  <1>2. /\ FileFrom(k) \in Seq(Blocks)
        /\ Len(FileFrom(k)) = FileLen - k
        /\ \A i \in 1..(FileLen - k) : FileFrom(k)[i] = k + i
    BY <1>1, FileFromType, TransferAssumption DEF FileFrom
  <1>3. Head(FileFrom(k)) = k + 1
    BY <1>1, <1>2, TransferAssumption
  <1>4. /\ Tail(FileFrom(k)) \in Seq(Blocks)
        /\ Len(Tail(FileFrom(k))) = FileLen - (k + 1)
        /\ \A i \in 1..(FileLen - (k + 1)) :
              Tail(FileFrom(k))[i] = FileFrom(k)[i + 1]
    BY <1>1, <1>2, HeadTailProperties, TransferAssumption
  <1>5. /\ FileFrom(k + 1) \in Seq(Blocks)
        /\ Len(FileFrom(k + 1)) = FileLen - (k + 1)
        /\ \A i \in 1..(FileLen - (k + 1)) : FileFrom(k + 1)[i] = (k + 1) + i
    <2>1. FileLen - (k + 1) \in Nat /\ k + 1 \in Nat
      BY <1>1, TransferAssumption
    <2>2. FileFrom(k + 1) \in Seq(Blocks)
      BY <2>1, FileFromType
    <2>. QED
      BY <2>1, <2>2 DEF FileFrom
  <1>6. \A i \in 1..Len(Tail(FileFrom(k))) :
           Tail(FileFrom(k))[i] = FileFrom(k + 1)[i]
    BY <1>1, <1>2, <1>4, <1>5, TransferAssumption
  <1>7. Tail(FileFrom(k)) = FileFrom(k + 1)
    BY <1>4, <1>5, <1>6, SeqEqual
  <1>. QED
    BY <1>1, <1>3, <1>7

-----------------------------------------------------------------------------
(* The type invariant.                                                      *)

LEMMA InitType == Init => TypeOK
  BY TransferAssumption DEF Init, TypeOK, Blocks

(* The part of a file that survives a crash is still made of blocks.        *)
LEMMA CutDisk ==
    ASSUME NEW s \in Seq(Blocks), NEW n \in Nat, n <= Len(s)
    PROVE  /\ SubSeq(s, 1, n) \in Seq(Blocks)
           /\ Len(SubSeq(s, 1, n)) = n
           /\ \A i \in 1..n : SubSeq(s, 1, n)[i] = s[i]
  <1>1. \A i \in 1..n : s[i] \in Blocks
    OBVIOUS
  <1>. QED
    BY <1>1, SubSeqProperties

LEMMA StatusType ==
    ASSUME NEW c \in {200, 206, 404, 416}
    PROVE  StatusSeen(c) \subseteq {0, 200, 206, 404, 416, 4, 6}
  <1>1. /\ 200 % 10 = 0 /\ 206 % 10 = 6
        /\ 404 % 10 = 4 /\ 416 % 10 = 6
    OBVIOUS
  <1>. QED
    BY <1>1 DEF StatusSeen

(* A reply of one of the known statuses with a body of blocks.              *)
LEMMA ReceiveType ==
    ASSUME TypeOK, NEW c \in {200, 206, 404, 416}, NEW b \in Seq(Blocks),
           Receive(c, b), UNCHANGED env
    PROVE  TypeOK'
  <1>1. seen' \in {0, 200, 206, 404, 416, 4, 6}
    BY StatusType DEF Receive
  <1>2. /\ disk' \in Seq(Blocks)
        /\ resume_from' \in Nat /\ downloaded' \in Nat
    <2>1. \/ disk' = <<>> /\ resume_from' = 0 /\ downloaded' = 0
          \/ disk' = disk /\ resume_from' = resume_from /\ downloaded' = downloaded
      BY DEF Receive
    <2>2. <<>> \in Seq(Blocks) /\ disk \in Seq(Blocks)
      BY DEF TypeOK
    <2>3. disk' \in Seq(Blocks)
      BY <2>1, <2>2
    <2>. QED
      BY <2>1, <2>3 DEF TypeOK
  <1>. QED
    BY <1>1, <1>2 DEF Receive, TypeOK, Open, env

LEMMA NextType == TypeOK /\ [Next]_vars => TypeOK'
  <1> SUFFICES ASSUME TypeOK, [Next]_vars PROVE TypeOK'
    OBVIOUS
  <1> USE TransferAssumption
  <1>0. UNCHANGED env
    BY DEF Next, Work, Start, Crash, vars
  <1>1. CASE Start
    BY <1>0, <1>1 DEF Start, TypeOK, env
  <1>2. CASE Stat
    BY <1>0, <1>2 DEF Stat, Settle, TypeOK, env
  <1>3. CASE OpenAppend
    BY <1>0, <1>3 DEF OpenAppend, TypeOK, Open, env
  <1>4. CASE OpenFresh
    BY <1>0, <1>4 DEF OpenFresh, TypeOK, Open, env
  <1>5. CASE OpenFails
    BY <1>0, <1>5 DEF OpenFails, Settle, TypeOK, env
  <1>6. CASE NoReply
    BY <1>0, <1>6 DEF NoReply, TypeOK, Open, env
  <1>7. CASE ReplyFull
    BY <1>0, <1>7, FileFromType, ReceiveType DEF ReplyFull
  <1>8. CASE ReplyPart
    <2>1. FileFrom(resume_from) \in Seq(Blocks)
      BY FileFromType DEF TypeOK
    <2>. QED
      BY <1>0, <1>8, <2>1, ReceiveType DEF ReplyPart
  <1>9. CASE ReplyPastEnd
    <2>1. PICK b \in ErrorBodies : Receive(416, b)
      BY <1>0, <1>9 DEF ReplyPastEnd
    <2>. QED
      BY <2>1, ErrorBodiesType, ReceiveType, <1>0
  <1>10. CASE ReplyError
    <2>1. PICK b \in ErrorBodies : Receive(404, b)
      BY <1>0, <1>10 DEF ReplyError
    <2>. QED
      BY <2>1, ErrorBodiesType, ReceiveType, <1>0
  <1>11. CASE Deliver
    <2>1. /\ Head(body) \in Blocks
          /\ Tail(body) \in Seq(Blocks)
      BY <1>0, <1>11, HeadTailProperties DEF Deliver, TypeOK, env
    <2>2. \A s \in Seq(Blocks) : Append(s, Head(body)) \in Seq(Blocks)
      BY <2>1, AppendProperties
    <2>3. disk' \in Seq(Blocks)
      BY <1>0, <1>11, <2>2 DEF Deliver, TypeOK, env
    <2>4. downloaded' \in Nat /\ resume_from' \in Nat
      BY <1>0, <1>11 DEF Deliver, TypeOK, env
    <2>. QED
      BY <1>0, <1>11, <2>1, <2>3, <2>4 DEF Deliver, TypeOK, Open, env
  <1>12. CASE EndBody
    BY <1>0, <1>12 DEF EndBody, TypeOK, Open, env
  <1>13. CASE Cut
    BY <1>0, <1>13 DEF Cut, CutStatus, TypeOK, Open, env
  <1>14. CASE Close
    <2>1. Classify \in {"downloaded", "skipped", "failed"}
      BY DEF Classify
    <2>. QED
      BY <1>0, <1>14, <2>1 DEF Close, Settle, TypeOK, env
  <1>15. CASE Crash
    <2>1. disk' \in Seq(Blocks)
      <3>1. CASE pc \in Open
        <4>1. PICK n \in resume_from..Len(disk) : disk' = SubSeq(disk, 1, n)
          BY <1>0, <1>15, <3>1 DEF Crash
        <4>2. n \in Nat /\ n <= Len(disk)
          BY DEF TypeOK, env
        <4>. QED
          BY <4>1, <4>2, CutDisk DEF TypeOK, env
      <3>2. CASE pc \notin Open
        BY <1>0, <1>15, <3>2 DEF Crash, TypeOK, env
      <3>. QED
        BY <3>1, <3>2
    <2>. QED
      BY <1>0, <1>15, <2>1 DEF Crash, Settle, TypeOK, env
  <1>16. CASE UNCHANGED vars
    BY <1>16 DEF vars, TypeOK, env
  <1>. QED
    BY <1>1, <1>2, <1>3, <1>4, <1>5, <1>6, <1>7, <1>8, <1>9, <1>10, <1>11,
       <1>12, <1>13, <1>14, <1>15, <1>16 DEF Next, Work, Reply

(* Every reachable state of a file's transfers, whatever the environment    *)
(* does, is one the types of download_one's locals allow.                   *)
THEOREM TransferTypes == Spec => []TypeOK
  BY InitType, NextType, PTL DEF Spec

-----------------------------------------------------------------------------
(* The local file is a beginning of the served one.                         *)

IsPrefix(s) == Len(s) <= FileLen /\ \A i \in 1..Len(s) : s[i] = i

(* The offset asked for is the size of the file that was opened.            *)
OffsetIsSize ==
    /\ pc \in {"stat", "open"} => resume_from = 0
    /\ pc = "open" => exist = Len(disk)
    /\ pc = "request" => resume_from = Len(disk)

(* The rest of a reply continues the local file, or is the whole file when  *)
(* the next block restarts it.                                              *)
BodyContinues ==
    pc = "body" /\ body # <<>> =>
        body = FileFrom(IF RestartDue THEN 0 ELSE Len(disk))

IInv == TypeOK /\ IsPrefix(disk) /\ OffsetIsSize /\ BodyContinues

LEMMA InitIInv == Init => IInv
  <1>1. Init => IsPrefix(disk)
    BY TransferAssumption DEF Init, IsPrefix
  <1>. QED
    BY <1>1, InitType DEF Init, IInv, OffsetIsSize, BodyContinues

(* An error without a page leaves everything as it is.                      *)
LEMMA EmptyReply ==
    ASSUME IInv, TypeOK', NEW c \in {404, 416}, Receive(c, <<>>)
    PROVE  IInv'
  <1>1. disk' = disk /\ pc' = "body" /\ body' = <<>>
    BY DEF Receive
  <1>. QED
    BY <1>1 DEF IInv, IsPrefix, OffsetIsSize, BodyContinues

(* Without error pages and HTTP/2 status lines, a reply is read as what it  *)
(* is, and its body is a part of the file.                                  *)
LEMMA ReceiveIInv ==
    ASSUME IInv, TypeOK', faults = {}, UNCHANGED env,
           NEW c \in {200, 206, 404, 416}, NEW b \in Seq(Blocks), Receive(c, b),
           \/ c = 200 /\ b = FileFrom(0)
           \/ c = 206 /\ b = FileFrom(resume_from)
    PROVE  IInv'
  <1> USE TransferAssumption
  <1>1. seen' = c
    BY DEF Receive, StatusSeen
  <1>2. resume_from = Len(disk)
    BY DEF Receive, IInv, OffsetIsSize
  <1>3. CASE backend = "winhttp" /\ c = 200 /\ resume_from > 0
    <2>1. disk' = <<>> /\ Len(disk') = 0
      BY <1>3 DEF Receive
    <2>2. IsPrefix(disk)'
      BY <2>1 DEF IsPrefix
    <2>3. ~RestartDue'
      BY <1>3 DEF RestartDue, env
    <2>4. BodyContinues'
      BY <1>3, <2>1, <2>3 DEF BodyContinues, Receive
    <2>. QED
      BY <2>2, <2>4 DEF IInv, OffsetIsSize, Receive
  <1>4. CASE ~(backend = "winhttp" /\ c = 200 /\ resume_from > 0)
    <2>1. disk' = disk /\ resume_from' = resume_from
      BY <1>4 DEF Receive
    <2>2. RestartDue' <=> c = 200 /\ resume_from > 0
      BY <1>1, <1>4, <2>1 DEF RestartDue, IInv, TypeOK, env
    <2>3. BodyContinues'
      BY <1>2, <2>1, <2>2 DEF BodyContinues, Receive, IInv, TypeOK
    <2>. QED
      BY <2>1, <2>3 DEF IInv, OffsetIsSize, Receive, IsPrefix
  <1>. QED
    BY <1>3, <1>4

LEMMA NextIInv == faults = {} /\ IInv /\ [Next]_vars => IInv'
  <1> SUFFICES ASSUME faults = {}, IInv, [Next]_vars PROVE IInv'
    OBVIOUS
  <1> USE TransferAssumption
  <1>0. TypeOK'
    BY NextType DEF IInv
  <1>u. UNCHANGED env
    BY DEF Next, Work, Start, Crash, vars
  <1>e. ErrorBodies = {<<>>}
    BY DEF ErrorBodies
  <1>s. ASSUME UNCHANGED disk, pc' \in {"off", "close"} PROVE IInv'
    BY <1>0, <1>s DEF IInv, IsPrefix, OffsetIsSize, BodyContinues
  <1>1. CASE Start
    <2>1. disk' = disk /\ pc' = "stat" /\ resume_from' = 0
      BY <1>1 DEF Start
    <2>. QED
      BY <1>0, <2>1 DEF IInv, IsPrefix, OffsetIsSize, BodyContinues
  <1>2. CASE Stat
    BY <1>0, <1>2 DEF Stat, Settle, IInv, IsPrefix, OffsetIsSize, BodyContinues
  <1>3. CASE OpenAppend
    BY <1>0, <1>3 DEF OpenAppend, IInv, IsPrefix, OffsetIsSize, BodyContinues
  <1>4. CASE OpenFresh
    <2>1. disk' = <<>> /\ Len(disk') = 0 /\ resume_from' = resume_from
      BY <1>4 DEF OpenFresh
    <2>2. resume_from = 0
      BY <1>4 DEF OpenFresh, IInv, OffsetIsSize
    <2>. QED
      BY <1>0, <1>4, <2>1, <2>2
         DEF OpenFresh, IInv, IsPrefix, OffsetIsSize, BodyContinues
  <1>5. CASE OpenFails
    BY <1>5, <1>s DEF OpenFails, Settle
  <1>6. CASE NoReply
    BY <1>6, <1>s DEF NoReply
  <1>7. CASE ReplyFull
    BY <1>0, <1>u, <1>7, FileFromType, ReceiveIInv DEF ReplyFull
  <1>8. CASE ReplyPart
    <2>1. FileFrom(resume_from) \in Seq(Blocks)
      BY FileFromType DEF IInv, TypeOK
    <2>. QED
      BY <1>0, <1>u, <1>8, <2>1, ReceiveIInv DEF ReplyPart
  <1>9. CASE ReplyPastEnd
    <2>1. Receive(416, <<>>)
      BY <1>e, <1>9 DEF ReplyPastEnd
    <2>. QED
      BY <1>0, <2>1, EmptyReply
  <1>10. CASE ReplyError
    <2>1. Receive(404, <<>>)
      BY <1>e, <1>10 DEF ReplyError
    <2>. QED
      BY <1>0, <2>1, EmptyReply
  <1>11. CASE Deliver
    <2> DEFINE kept == IF RestartDue THEN <<>> ELSE disk
               k == IF RestartDue THEN 0 ELSE Len(disk)
    <2>1. /\ kept \in Seq(Blocks) /\ Len(kept) = k /\ k \in Nat
          /\ \A i \in 1..k : kept[i] = i
      BY DEF IInv, TypeOK, IsPrefix
    <2>2. body # <<>> /\ body = FileFrom(k)
      BY <1>11 DEF Deliver, IInv, BodyContinues
    <2>3. k < FileLen /\ Head(body) = k + 1 /\ Tail(body) = FileFrom(k + 1)
      BY <2>1, <2>2, FileFromStep
    <2>4. disk' = Append(kept, k + 1)
      BY <1>11, <2>3 DEF Deliver
    <2>5. k + 1 \in Blocks
      BY <2>1, <2>3 DEF Blocks
    <2>6. /\ Len(disk') = k + 1
          /\ \A i \in 1..k : disk'[i] = kept[i]
          /\ disk'[k + 1] = k + 1
      BY <2>1, <2>4, <2>5, AppendProperties
    <2>7. IsPrefix(disk)'
      BY <2>1, <2>3, <2>6 DEF IsPrefix
    <2>8. ~RestartDue'
      BY <1>u, <1>11 DEF Deliver, RestartDue, env
    <2>9. BodyContinues'
      BY <1>11, <2>3, <2>6, <2>8 DEF Deliver, BodyContinues
    <2>. QED
      BY <1>0, <1>11, <2>7, <2>9 DEF Deliver, IInv, OffsetIsSize
  <1>12. CASE EndBody
    BY <1>12, <1>s DEF EndBody
  <1>13. CASE Cut
    BY <1>13, <1>s DEF Cut
  <1>14. CASE Close
    BY <1>14, <1>s DEF Close, Settle
  <1>15. CASE Crash
    <2>1. IsPrefix(disk)'
      <3>1. CASE pc \in Open
        <4>1. PICK n \in resume_from..Len(disk) : disk' = SubSeq(disk, 1, n)
          BY <1>15, <3>1 DEF Crash
        <4>2. n \in Nat /\ n <= Len(disk)
          BY DEF IInv, TypeOK
        <4>3. /\ Len(disk') = n
              /\ \A i \in 1..n : disk'[i] = disk[i]
          BY <4>1, <4>2, CutDisk DEF IInv, TypeOK
        <4>. QED
          BY <4>2, <4>3 DEF IInv, IsPrefix, TypeOK
      <3>2. CASE pc \notin Open
        BY <1>15, <3>2 DEF Crash, IInv, IsPrefix
      <3>. QED
        BY <3>1, <3>2
    <2>. QED
      BY <1>0, <1>15, <2>1 DEF Crash, Settle, IInv, OffsetIsSize, BodyContinues
  <1>16. CASE UNCHANGED vars
    BY <1>0, <1>16 DEF vars, env, IInv, IsPrefix, OffsetIsSize, BodyContinues, RestartDue
  <1>. QED
    BY <1>1, <1>2, <1>3, <1>4, <1>5, <1>6, <1>7, <1>8, <1>9, <1>10, <1>11,
       <1>12, <1>13, <1>14, <1>15, <1>16 DEF Next, Work, Reply

(* As long as error replies have no body, the status line is read right and *)
(* no write is lost, the local file is a beginning of the served one in     *)
(* every state of every run, crashes included.                              *)
THEOREM TransferPrefix == Spec => []LocalIsPrefix
  <1> DEFINE Inv == TypeOK /\ (faults = {} => IInv)
  <1>1. Init => Inv
    BY InitType, InitIInv
  <1>2. Inv /\ [Next]_vars => Inv'
    <2>1. [Next]_vars => UNCHANGED env
      BY DEF Next, Work, Start, Crash, vars
    <2>. QED
      BY <2>1, NextType, NextIInv DEF env
  <1>3. Inv => LocalIsPrefix
    BY DEF IInv, TypeOK, IsPrefix, LocalIsPrefix
  <1>. QED
    BY <1>1, <1>2, <1>3, PTL DEF Spec

-----------------------------------------------------------------------------
(* What one delivery and one crash do to the size of the file.              *)

LEMMA DeliverSize ==
    ASSUME TypeOK, Deliver
    PROVE  /\ Len(disk') \in Nat
           /\ RestartDue => Len(disk') \in {0, 1}
           /\ ~RestartDue => Len(disk') \in {Len(disk), Len(disk) + 1}
           /\ "lost_write" \notin faults /\ RestartDue => Len(disk') = 1
           /\ "lost_write" \notin faults /\ ~RestartDue => Len(disk') = Len(disk) + 1
  <1> DEFINE kept == IF RestartDue THEN <<>> ELSE disk
  <1>1. Head(body) \in Blocks
    BY HeadTailProperties DEF Deliver, TypeOK
  <1>2. kept \in Seq(Blocks) /\ Len(kept) = IF RestartDue THEN 0 ELSE Len(disk)
    BY DEF TypeOK
  <1>3. Len(Append(kept, Head(body))) = Len(kept) + 1
    BY <1>1, <1>2, AppendProperties
  <1>4. \/ disk' = kept /\ "lost_write" \in faults
        \/ disk' = Append(kept, Head(body))
    BY DEF Deliver
  <1>5. Len(kept) \in Nat /\ Len(disk) \in Nat
    BY <1>2 DEF TypeOK
  <1>6. \/ Len(disk') = Len(kept) /\ "lost_write" \in faults
        \/ Len(disk') = Len(kept) + 1
    BY <1>3, <1>4
  <1> HIDE DEF kept
  <1>. QED
    BY <1>2, <1>5, <1>6

LEMMA CrashSize ==
    ASSUME TypeOK, Crash
    PROVE  /\ pc \in Open => Len(disk') \in resume_from..Len(disk)
           /\ pc \notin Open => disk' = disk
  <1>1. CASE pc \in Open
    <2>1. PICK n \in resume_from..Len(disk) : disk' = SubSeq(disk, 1, n)
      BY <1>1 DEF Crash
    <2>2. n \in Nat /\ n <= Len(disk)
      BY DEF TypeOK
    <2>. QED
      BY <1>1, <2>1, <2>2, CutDisk DEF TypeOK
  <1>. QED
    BY <1>1 DEF Crash

Bodies == {FileFrom(0), FileFrom(resume_from)} \union ErrorBodies

(* Every reply is a Receive of one of the known statuses.                   *)
LEMMA ReplyIsReceive ==
    ASSUME Reply
    PROVE  \E c \in {200, 206, 404, 416}, b \in Bodies :
              /\ Receive(c, b)
              /\ c = 200 => b = FileFrom(0)
              /\ c = 206 => b = FileFrom(resume_from) /\ resume_from < FileLen
              /\ c = 416 => resume_from >= FileLen /\ b \in ErrorBodies
              /\ c = 404 => b \in ErrorBodies
  BY DEF Reply, ReplyFull, ReplyPart, ReplyPastEnd, ReplyError, Bodies

-----------------------------------------------------------------------------
(* The progress shown.                                                      *)

(* What the progress needs that it does not say: where a run stands before  *)
(* its file is open.                                                       *)
ProgressInv ==
    /\ pc \in {"stat", "open"} => resume_from = 0 /\ downloaded = 0
    /\ pc = "open" => exist = Len(disk)
    /\ pc = "request" => downloaded = 0
    /\ pc \in Open => resume_from + downloaded = Len(disk)

LEMMA NextProgress ==
    ASSUME TypeOK, "lost_write" \notin faults, ProgressInv, [Next]_vars
    PROVE  ProgressInv'
  <1> USE DEF ProgressInv, Open
  <1>1. CASE Start
    BY <1>1 DEF Start
  <1>2. CASE Stat
    BY <1>2 DEF Stat, Settle
  <1>3. CASE OpenAppend \/ OpenFresh
    BY <1>3 DEF OpenAppend, OpenFresh, TypeOK
  <1>4. CASE OpenFails \/ NoReply \/ EndBody \/ Cut \/ Close
    BY <1>4 DEF OpenFails, NoReply, EndBody, Cut, Close, Settle
  <1>5. CASE Reply
    <2>1. PICK c \in {200, 206, 404, 416}, b \in Bodies : Receive(c, b)
      BY <1>5, ReplyIsReceive
    <2>. QED
      BY <2>1 DEF Receive
  <1>6. CASE Deliver
    BY <1>6, DeliverSize DEF Deliver, TypeOK
  <1>7. CASE Crash
    BY <1>7 DEF Crash, Settle
  <1>8. CASE UNCHANGED vars
    BY <1>8 DEF vars
  <1>. QED
    BY <1>1, <1>2, <1>3, <1>4, <1>5, <1>6, <1>7, <1>8 DEF Next, Work

(* The progress a transfer shows is the size of the file being written, for *)
(* every file length, listed size and reply, error pages and misread status *)
(* lines included.                                                         *)
THEOREM TransferProgress == Spec => []ProgressTruth
  <1> DEFINE Inv == TypeOK /\ ("lost_write" \notin faults => ProgressInv)
  <1>1. Init => Inv
    BY InitType DEF Init, ProgressInv, Open
  <1>2. Inv /\ [Next]_vars => Inv'
    <2>1. [Next]_vars => UNCHANGED env
      BY DEF Next, Work, Start, Crash, vars
    <2>. QED
      BY <2>1, NextType, NextProgress DEF env
  <1>3. Inv => ProgressTruth
    BY DEF ProgressInv, ProgressTruth
  <1>. QED
    BY <1>1, <1>2, <1>3, PTL DEF Spec

-----------------------------------------------------------------------------
(* No ground is lost, under any faults.                                     *)

(* A file that is opened was too short, or has no listed size; until a 200  *)
(* arrives, what was on disk when it was opened lies below the offset that  *)
(* was asked for, and no crash reaches it there.                            *)
GroundInv ==
    /\ pc \in {"stat", "open"} => resume_from = 0
    /\ pc = "open" => exist = Len(disk) /\ (fsz > 0 => exist < fsz)
    /\ pc \in {"stat", "open", "request"} => code = 0
    /\ pc \in Open /\ fsz > 0 /\ code # 200 =>
           resume_from = exist /\ Len(disk) >= exist
    /\ pc = "body" /\ seen = 200 => code = 200

LEMMA SeenOf ==
    ASSUME NEW c \in {200, 206, 404, 416}, 200 \in StatusSeen(c)
    PROVE  c = 200
  <1>1. /\ 200 % 10 = 0 /\ 206 % 10 = 6
        /\ 404 % 10 = 4 /\ 416 % 10 = 6
    OBVIOUS
  <1>. QED
    BY <1>1 DEF StatusSeen

LEMMA NextGround ==
    ASSUME TypeOK, GroundInv, [Next]_vars
    PROVE  GroundInv'
  <1> USE DEF GroundInv, Open
  <1>1. CASE Start
    BY <1>1 DEF Start
  <1>2. CASE Stat
    BY <1>2 DEF Stat, Settle, AlreadyThere, TypeOK
  <1>3. CASE OpenAppend \/ OpenFresh
    BY <1>3 DEF OpenAppend, OpenFresh, Resumable, TypeOK
  <1>4. CASE OpenFails \/ NoReply \/ EndBody \/ Cut \/ Close
    BY <1>4 DEF OpenFails, NoReply, EndBody, Cut, Close, Settle
  <1>5. CASE Reply
    <2>1. PICK c \in {200, 206, 404, 416}, b \in Bodies : Receive(c, b)
      BY <1>5, ReplyIsReceive
    <2>2. seen' = 200 => c = 200
      BY <2>1, SeenOf DEF Receive
    <2>. QED
      BY <2>1, <2>2 DEF Receive
  <1>6. CASE Deliver
    BY <1>6, DeliverSize DEF Deliver, RestartDue, TypeOK
  <1>7. CASE Crash
    BY <1>7 DEF Crash, Settle
  <1>8. CASE UNCHANGED vars
    BY <1>8 DEF vars
  <1>. QED
    BY <1>1, <1>2, <1>3, <1>4, <1>5, <1>6, <1>7, <1>8 DEF Next, Work

GroundKept ==
    (pc \in {"open"} \union Open /\ fsz > 0 /\ code' # 200) => Len(disk') >= exist

LEMMA StepKeepsGround ==
    ASSUME TypeOK, GroundInv, Next
    PROVE  GroundKept
  <1> SUFFICES ASSUME pc \in {"open"} \union Open, fsz > 0, code' # 200
               PROVE  Len(disk') >= exist
    BY DEF GroundKept
  <1> USE DEF GroundInv, Open
  <1>1. CASE Start \/ Stat
    BY <1>1 DEF Start, Stat
  <1>2. CASE OpenAppend \/ OpenFresh
    BY <1>2 DEF OpenAppend, OpenFresh, Resumable, TypeOK
  <1>3. CASE OpenFails \/ NoReply \/ EndBody \/ Cut \/ Close
    BY <1>3 DEF OpenFails, NoReply, EndBody, Cut, Close, TypeOK
  <1>4. CASE Reply
    <2>1. PICK c \in {200, 206, 404, 416}, b \in Bodies : Receive(c, b)
      BY <1>4, ReplyIsReceive
    <2>. QED
      BY <2>1 DEF Receive
  <1>5. CASE Deliver
    BY <1>5, DeliverSize DEF Deliver, RestartDue, TypeOK
  <1>6. CASE Crash
    BY <1>6, CrashSize DEF Crash, TypeOK
  <1>. QED
    BY <1>1, <1>2, <1>3, <1>4, <1>5, <1>6 DEF Next, Work

(* No run of a file with a listed size leaves less of it than it found,     *)
(* unless the server sends the whole file again: whatever breaks or stops,  *)
(* and whatever the file held.                                             *)
THEOREM TransferKeepsGround == Spec => KeepsGround
  <1>1. Init => TypeOK /\ GroundInv
    BY InitType DEF Init, GroundInv, Open
  <1>2. TypeOK /\ GroundInv /\ [Next]_vars => TypeOK' /\ GroundInv'
    BY NextType, NextGround
  <1>3. TypeOK /\ GroundInv /\ [Next]_vars => [GroundKept]_vars
    BY StepKeepsGround
  <1>. QED
    BY <1>1, <1>2, <1>3, PTL DEF Spec, KeepsGround, GroundKept

CompleteKept == (pc \notin Open /\ fsz > 0 /\ Served) => disk' = disk

LEMMA StepKeepsComplete ==
    ASSUME TypeOK, GroundInv, Next
    PROVE  CompleteKept
  <1> SUFFICES ASSUME pc \notin Open, fsz > 0, Served
               PROVE  disk' = disk
    BY DEF CompleteKept
  <1>1. Len(disk) = FileLen /\ FileLen > 0
    BY TransferAssumption DEF Served, ServedFile, FileFrom
  <1>2. ~OpenFresh
    BY <1>1 DEF OpenFresh, Resumable, GroundInv
  <1>3. CASE Start \/ Stat \/ OpenAppend \/ OpenFails
    BY <1>3 DEF Start, Stat, OpenAppend, OpenFails
  <1>4. CASE Crash
    BY <1>4, CrashSize
  <1>5. ~(NoReply \/ Reply \/ Deliver \/ EndBody \/ Cut \/ Close)
    BY ReplyIsReceive DEF NoReply, Receive, Deliver, EndBody, Cut, Close, Open
  <1>. QED
    BY <1>2, <1>3, <1>4, <1>5 DEF Next, Work

(* A complete file is not touched again by a run that knows its size.       *)
THEOREM TransferKeepsComplete == Spec => CompleteIsKept
  <1>1. Init => TypeOK /\ GroundInv
    BY InitType DEF Init, GroundInv, Open
  <1>2. TypeOK /\ GroundInv /\ [Next]_vars => TypeOK' /\ GroundInv'
    BY NextType, NextGround
  <1>3. TypeOK /\ GroundInv /\ [Next]_vars => [CompleteKept]_vars
    BY StepKeepsComplete
  <1>. QED
    BY <1>1, <1>2, <1>3, PTL DEF Spec, CompleteIsKept, CompleteKept

-----------------------------------------------------------------------------
(* What is counted as complete is complete.                                 *)

LEMMA NoMoreBlocks ==
    ASSUME NEW k \in Nat, FileFrom(k) = <<>>
    PROVE  k >= FileLen
  <1>1. SUFFICES ASSUME k < FileLen PROVE FALSE
    BY TransferAssumption
  <1>2. FileLen - k \in Nat \ {0}
    BY <1>1, TransferAssumption
  <1>3. Len(FileFrom(k)) = FileLen - k
    BY <1>2 DEF FileFrom
  <1>. QED
    BY <1>2, <1>3

LEMMA WholeIsServed ==
    ASSUME disk \in Seq(Blocks), IsPrefix(disk), Len(disk) >= FileLen
    PROVE  Served
  <1>1. Len(disk) = FileLen /\ \A i \in 1..FileLen : disk[i] = i
    BY TransferAssumption DEF IsPrefix
  <1>2. /\ ServedFile \in Seq(Blocks) /\ Len(ServedFile) = FileLen
        /\ \A i \in 1..FileLen : ServedFile[i] = i
    <2>1. FileFrom(0) \in Seq(Blocks)
      BY FileFromType
    <2>. QED
      BY <2>1, TransferAssumption DEF ServedFile, FileFrom
  <1>. QED
    BY <1>1, <1>2, SeqEqual DEF Served

(* The listing never gives a size below the real one; it may give none.     *)
NoSizeTooSmall == \A s \in ListedSizes : s = 0 \/ s >= FileLen

Whole == Len(disk) >= FileLen

(* The reply that is at its end has been written to its end.  Only WinHTTP  *)
(* takes a broken body for one that ended, and then the listed size decides. *)
WholeInv ==
    /\ fsz \in ListedSizes \union {0}
    /\ pc \in {"stat", "open", "request"} => sc = 0 /\ code = 0
    /\ pc = "body" /\ body = <<>> /\ code \in {200, 206} => Whole
    /\ pc = "body" => seen = code
    /\ pc = "body" /\ code = 416 => Whole
    /\ pc = "close" /\ sc = 416 => Whole
    /\ pc = "close" /\ sc \in {200, 206} /\ backend = "curl" => Whole
    /\ outcome # "none" => pc = "off"
    /\ outcome \in {"downloaded", "skipped"} /\ (backend = "curl" \/ fsz > 0) => Whole

LEMMA NextWhole ==
    ASSUME NoSizeTooSmall, faults = {}, IInv, WholeInv, [Next]_vars
    PROVE  WholeInv'
  <1> USE TransferAssumption DEF WholeInv, Whole
  <1>0. /\ TypeOK /\ Len(disk) \in Nat /\ UNCHANGED env
        /\ fsz > 0 => fsz >= FileLen
    BY DEF IInv, TypeOK, NoSizeTooSmall, Next, Work, Start, Crash, vars
  <1>t. Len(disk') \in Nat
    BY <1>0, NextType DEF TypeOK
  <1>1. CASE Start
    BY <1>0, <1>1 DEF Start
  <1>2. CASE Stat
    <2>1. AlreadyThere => Whole
      BY <1>0 DEF AlreadyThere, TypeOK
    <2>. QED
      BY <1>0, <1>2, <2>1 DEF Stat, Settle, env
  <1>3. CASE OpenAppend \/ OpenFresh
    BY <1>0, <1>3 DEF OpenAppend, OpenFresh
  <1>4. CASE OpenFails \/ NoReply
    BY <1>0, <1>4 DEF OpenFails, NoReply, Settle
  <1>5. CASE Reply
    <2>1. PICK c \in {200, 206, 404, 416}, b \in Bodies :
             /\ Receive(c, b)
             /\ c = 200 => b = FileFrom(0)
             /\ c = 206 => b = FileFrom(resume_from) /\ resume_from < FileLen
             /\ c = 416 => resume_from >= FileLen
      BY <1>5, ReplyIsReceive
    <2>2. resume_from = Len(disk)
      BY <2>1 DEF Receive, IInv, OffsetIsSize
    <2>3. c \in {200, 206} => b # <<>>
      BY <1>0, <2>1, <2>2, NoMoreBlocks
    <2>4. c = 416 => disk' = disk
      BY <2>1 DEF Receive
    <2>5. pc' = "body" /\ seen' = c /\ code' = c /\ body' = b /\ fsz' = fsz /\ outcome' = outcome
          /\ pc = "request"
      BY <2>1 DEF Receive, StatusSeen
    <2>. QED
      BY <1>0, <2>1, <2>2, <2>3, <2>4, <2>5
  <1>6. CASE Deliver
    <2>1. ~RestartDue'
      BY <1>0, <1>6 DEF Deliver, RestartDue, env
    <2>2. IInv'
      BY NextIInv
    <2>3. pc' = "body" /\ (body' # <<>> => body' = FileFrom(Len(disk')))
      BY <1>6, <2>1, <2>2 DEF Deliver, IInv, BodyContinues
    <2>4. body' = <<>> => Len(disk') >= FileLen
      <3> DEFINE k == IF RestartDue THEN 0 ELSE Len(disk)
      <3>1. body # <<>> /\ body = FileFrom(k) /\ k \in Nat
        BY <1>0, <1>6 DEF Deliver, IInv, BodyContinues
      <3>2. Tail(body) = FileFrom(k + 1)
        BY <3>1, FileFromStep
      <3>3. Len(disk') = k + 1
        BY <1>0, <1>6, DeliverSize
      <3>4. body' = FileFrom(k + 1)
        BY <1>6, <3>2 DEF Deliver
      <3>. QED
        BY <3>1, <3>3, <3>4, NoMoreBlocks
    <2>5. code = 416 => ~RestartDue
      BY <1>6 DEF Deliver, RestartDue
    <2>. QED
      BY <1>0, <1>t, <1>6, <2>3, <2>4, <2>5, DeliverSize DEF Deliver
  <1>7. CASE EndBody \/ Cut
    BY <1>0, <1>7 DEF EndBody, Cut, CutStatus, env
  <1>8. CASE Close
    BY <1>0, <1>8 DEF Close, Classify, Settle, env, TypeOK
  <1>9. CASE Crash
    BY <1>0, <1>9 DEF Crash, Settle
  <1>10. CASE UNCHANGED vars
    BY <1>0, <1>10 DEF vars, env
  <1>. QED
    BY <1>1, <1>2, <1>3, <1>4, <1>5, <1>6, <1>7, <1>8, <1>9, <1>10 DEF Next, Work

(* Where the listing gives no size below the real one, a file that is       *)
(* counted as downloaded or as already there is the served file, whole.     *)
THEOREM TransferSettled ==
    ASSUME NoSizeTooSmall
    PROVE  Spec => []SettledIsComplete
  <1> DEFINE Inv == TypeOK /\ (faults = {} => IInv /\ WholeInv)
  <1>1. Init => Inv
    BY InitType, InitIInv DEF Init, WholeInv
  <1>2. Inv /\ [Next]_vars => Inv'
    <2>1. [Next]_vars => UNCHANGED env
      BY DEF Next, Work, Start, Crash, vars
    <2>. QED
      BY <2>1, NextType, NextIInv, NextWhole DEF env
  <1>3. Inv => SettledIsComplete
    BY WholeIsServed DEF IInv, TypeOK, WholeInv, Whole, SettledIsComplete
  <1>. QED
    BY <1>1, <1>2, <1>3, PTL DEF Spec

-----------------------------------------------------------------------------
(* A full reply replaces whatever the file held.                            *)

(* What is left of a full reply: all of it while the restart is due, later  *)
(* what follows the file as it stands; without an offset the file is empty. *)
FullInv ==
    /\ pc \in {"stat", "open"} => resume_from = 0
    /\ pc = "open" => exist = Len(disk)
    /\ pc \in {"stat", "open", "request"} => code = 0
    /\ pc = "request" /\ resume_from = 0 => Len(disk) = 0
    /\ pc = "body" => seen = code
    /\ pc = "body" /\ code = 200 /\ RestartDue => body = FileFrom(0)
    /\ pc = "body" /\ code = 200 /\ ~RestartDue =>
          IsPrefix(disk) /\ body = FileFrom(Len(disk))
    /\ pc = "close" /\ code = 200 /\ body = <<>> =>
          IsPrefix(disk) /\ Len(disk) >= FileLen

LEMMA NextFull ==
    ASSUME faults \subseteq {"page"}, TypeOK, FullInv, [Next]_vars
    PROVE  FullInv'
  <1> USE TransferAssumption DEF FullInv
  <1>0. UNCHANGED env /\ TypeOK' /\ Len(disk) \in Nat
    <2>1. UNCHANGED env
      BY DEF Next, Work, Start, Crash, vars
    <2>2. Len(disk) \in Nat
      BY DEF TypeOK
    <2>. QED
      BY <2>1, <2>2, NextType
  <1>1. CASE Start \/ Stat
    BY <1>0, <1>1 DEF Start, Stat, Settle
  <1>2. CASE OpenAppend \/ OpenFresh
    BY <1>0, <1>2 DEF OpenAppend, OpenFresh, Resumable, TypeOK
  <1>3. CASE OpenFails \/ NoReply \/ Close
    BY <1>0, <1>3 DEF OpenFails, NoReply, Close, Settle
  <1>4. CASE Reply
    <2>1. PICK c \in {200, 206, 404, 416}, b \in Bodies :
             Receive(c, b) /\ (c = 200 => b = FileFrom(0))
      BY <1>4, ReplyIsReceive
    <2>2. seen' = c /\ code' = c /\ body' = b /\ pc' = "body" /\ pc = "request"
      BY <2>1 DEF Receive, StatusSeen
    <2>3. ASSUME c = 200, ~RestartDue'
          PROVE  disk' = <<>> \/ Len(disk') = 0
      BY <1>0, <2>1, <2>2, <2>3 DEF Receive, RestartDue, TypeOK, env
    <2>4. ASSUME c = 200, ~RestartDue'
          PROVE  IsPrefix(disk') /\ Len(disk') = 0
      BY <2>3, <2>4 DEF IsPrefix
    <2>5. ASSUME c = 200, ~RestartDue'
          PROVE  IsPrefix(disk)' /\ body' = FileFrom(Len(disk'))
      BY <2>1, <2>2, <2>4, <2>5
    <2>6. c = 200 => body' = FileFrom(0)
      BY <2>1, <2>2
    <2>. QED
      BY <2>2, <2>5, <2>6
  <1>5. CASE Deliver
    <2>1. ~RestartDue' /\ pc' = "body" /\ seen' = seen /\ code' = code
      BY <1>0, <1>5 DEF Deliver, RestartDue, env
    <2>2. ASSUME code = 200
          PROVE  IsPrefix(disk)' /\ body' = FileFrom(Len(disk'))
      <3> DEFINE kept == IF RestartDue THEN <<>> ELSE disk
                 k == IF RestartDue THEN 0 ELSE Len(disk)
      <3>1. /\ kept \in Seq(Blocks) /\ Len(kept) = k /\ k \in Nat
            /\ \A i \in 1..k : kept[i] = i
        BY <1>5, <2>2 DEF Deliver, TypeOK, IsPrefix
      <3>2. body # <<>> /\ body = FileFrom(k)
        BY <1>5, <2>2 DEF Deliver
      <3>3. k < FileLen /\ Head(body) = k + 1 /\ Tail(body) = FileFrom(k + 1)
        BY <3>1, <3>2, FileFromStep
      <3>4. disk' = Append(kept, k + 1) /\ body' = FileFrom(k + 1)
        BY <1>5, <3>3 DEF Deliver
      <3>5. k + 1 \in Blocks
        BY <3>1, <3>3 DEF Blocks
      <3>6. /\ Len(disk') = k + 1
            /\ \A i \in 1..k : disk'[i] = kept[i]
            /\ disk'[k + 1] = k + 1
        BY <3>1, <3>4, <3>5, AppendProperties
      <3>. QED
        BY <3>1, <3>3, <3>4, <3>6 DEF IsPrefix
    <2>3. pc = "body"
      BY <1>5 DEF Deliver
    <2>. QED
      BY <2>1, <2>2, <2>3
  <1>6. CASE EndBody
    <2>1. ASSUME code = 200 PROVE IsPrefix(disk) /\ Len(disk) >= FileLen
      <3>1. body = <<>> /\ pc = "body"
        BY <1>6 DEF EndBody
      <3>2. FileFrom(0) # <<>>
        BY NoMoreBlocks
      <3>. QED
        BY <1>0, <2>1, <3>1, <3>2, NoMoreBlocks
    <2>. QED
      BY <1>6, <2>1 DEF EndBody
  <1>7. CASE Cut
    BY <1>7 DEF Cut
  <1>8. CASE Crash
    BY <1>8 DEF Crash, Settle
  <1>9. CASE UNCHANGED vars
    BY <1>9 DEF vars, env, RestartDue
  <1>. QED
    BY <1>1, <1>2, <1>3, <1>4, <1>5, <1>6, <1>7, <1>8, <1>9 DEF Next, Work

(* With HTTP/1.1 status lines and writes that succeed, a reply with status  *)
(* 200 leaves exactly the served file, whatever the file held before and    *)
(* whichever back end restarts it.                                         *)
THEOREM TransferFullReply == Spec => []FullReplyReplacesOnHttp1
  <1> DEFINE Inv == TypeOK /\ (faults \subseteq {"page"} => FullInv)
  <1>1. Init => Inv
    BY InitType DEF Init, FullInv
  <1>2. Inv /\ [Next]_vars => Inv'
    <2>1. [Next]_vars => UNCHANGED env
      BY DEF Next, Work, Start, Crash, vars
    <2>. QED
      BY <2>1, NextType, NextFull DEF env
  <1>3. Inv => FullReplyReplacesOnHttp1
    BY WholeIsServed DEF TypeOK, FullInv, FullReplyReplacesOnHttp1, FullReplyReplaces
  <1>. QED
    BY <1>1, <1>2, <1>3, PTL DEF Spec

=============================================================================
