------------------------ MODULE SigninDatabaseProofs ------------------------
(***************************************************************************)
(* Proofs about SigninDatabase, for any number of members, messages,       *)
(* files and failures.                                                     *)
(***************************************************************************)
EXTENDS SigninDatabase, TLAPS

\* A thread is at work exactly while it holds the lock.
LockInv == \A w \in Workers : worker[w].step # "none" <=> lock = w

JobInv == \A a \in Attempts :
    /\ job[a].stage = "running" <=> lock = a
    /\ job[a].stage \in {"sent", "running", "answered"}
           => job[a].kind \in {"sign", "reset"} /\ job[a].user \in Users

\* While an upload is accepted nobody changes the snapshot it is based on.
PostInv ==
    /\ lock = Upload => post.stage = "locked"
    /\ post.stage = "locked" => post.of = snapshot

\* A row of sign_log is never without its credit, in any file.
RowsPaid == \A h \in Hashes : \A r \in data[h].rows : data[h].credits[r] > 0

Frame == TypeOK /\ LockInv /\ JobInv /\ PostInv /\ RowsPaid

-----------------------------------------------------------------------------
(* What the operations do to one record.                                   *)

LEMMA MessageFields ==
    ASSUME NEW j \in Messages, NEW b \in BOOLEAN
    PROVE  /\ [j EXCEPT !.waits = FALSE] \in Messages
           /\ [j EXCEPT !.stage = "running"] \in Messages
           /\ [j EXCEPT !.stage = "answered", !.ok = b] \in Messages
  BY DEF Messages

LEMMA DoneFields ==
    ASSUME NEW kind \in {"none", "sign", "reset"}, NEW b \in BOOLEAN
    PROVE  Done(kind, b) \in Messages /\ Done(kind, b).stage = "done"
  BY DEF Messages, Done, NewJob

LEMMA SentFields ==
    ASSUME NEW kind \in {"sign", "reset"}, NEW u \in Users, NEW keep \in BOOLEAN
    PROVE  /\ Sent(kind, u, keep) \in Messages
           /\ Sent(kind, u, keep).stage = "sent"
           /\ Sent(kind, u, keep).kind = kind /\ Sent(kind, u, keep).user = u
  BY DEF Messages, Sent, NewJob

LEMMA ThreadFields ==
    ASSUME NEW t \in Threads, NEW read \in Nat, NEW next \in Nat
    PROVE  /\ [t EXCEPT !.step = "store"] \in Threads
           /\ [t EXCEPT !.step = "save"] \in Threads
           /\ [t EXCEPT !.step = "download", !.again = TRUE] \in Threads
           /\ [t EXCEPT !.step = "check", !.read = read, !.next = next] \in Threads
           /\ [t EXCEPT !.late = read] \in Threads
           /\ t.late + 1 \in Nat
  <1>1. /\ [t EXCEPT !.step = "store"] \in Threads
        /\ [t EXCEPT !.step = "save"] \in Threads
        /\ [t EXCEPT !.step = "download", !.again = TRUE] \in Threads
    BY DEF Threads
  <1>2. [t EXCEPT !.step = "check", !.read = read, !.next = next] \in Threads
    BY DEF Threads
  <1>3. [t EXCEPT !.late = read] \in Threads /\ t.late + 1 \in Nat
    BY DEF Threads
  <1> QED
    BY <1>1, <1>2, <1>3

LEMMA IdleFields ==
    ASSUME NEW read \in Nat, NEW next \in Nat
    PROVE  /\ Idle \in Threads
           /\ [Idle EXCEPT !.step = "download"] \in Threads
           /\ [Idle EXCEPT !.step = "check", !.read = read, !.next = next] \in Threads
  <1>1. Idle \in Threads /\ [Idle EXCEPT !.step = "download"] \in Threads
    BY DEF Threads, Idle
  <1>2. [Idle EXCEPT !.step = "check", !.read = read, !.next = next] \in Threads
    BY DEF Threads, Idle
  <1> QED
    BY <1>1, <1>2

LEMMA PostFields ==
    ASSUME NEW p \in Posts, NEW of \in Descriptors,
           NEW stage \in {"locked", "refused", "failed"}
    PROVE  /\ [p EXCEPT !.stage = stage] \in Posts
           /\ [p EXCEPT !.waits = FALSE] \in Posts
           /\ [p EXCEPT !.stage = "done", !.new = of] \in Posts
  BY DEF Posts, Descriptors

LEMMA NoPostFields ==
    ASSUME NEW of \in Descriptors, NEW body \in Nat
    PROVE  /\ NoPost \in Posts
           /\ [NoPost EXCEPT !.stage = "sent", !.of = of, !.body = body,
                             !.waits = TRUE] \in Posts
  BY DEF Posts, NoPost, Nothing, Descriptors

LEMMA EditFields ==
    ASSUME NEW c \in Contents
    PROVE  [c EXCEPT !.edits = c.edits + 1] \in Contents
  BY DEF Contents

LEMMA ContentsFields ==
    ASSUME NEW c \in Contents, NEW r \in Users
    PROVE  /\ Signed(c, r) \in Contents
           /\ c.credits[r] > 0 => \A keep \in BOOLEAN : Reset(c, r, keep) \in Contents
  BY DEF Contents, Signed, Reset

LEMMA SavedAsFields ==
    ASSUME TypeOK, NEW h \in 1 .. writes
    PROVE  /\ SavedAs(h) \in Descriptors
           /\ SavedAs(h).hash = h
  BY BoundAssumption DEF TypeOK, SavedAs, Descriptors, Hashes

-----------------------------------------------------------------------------
(* Frame is inductive: types, the lock, the stages of the messages.        *)

USE DEF Workers

LEMMA InitFrame == Init => Frame
  <1> SUFFICES ASSUME Init PROVE Frame
    OBVIOUS
  <1> USE BoundAssumption
  <1>1. /\ First \in Descriptors /\ Nothing \in Descriptors
        /\ Empty \in Contents /\ Idle \in Threads /\ NewJob \in Messages /\ NoPost \in Posts
    BY DEF First, Nothing, Descriptors, Empty, Contents, Idle, Threads, NewJob, Messages,
           NoPost, Posts
  <1>2. /\ data \in [Hashes -> Contents] /\ job \in [Attempts -> Messages]
        /\ worker \in [Workers -> Threads] /\ kept \in [Users -> Nat] /\ post \in Posts
    BY <1>1 DEF Init
  <1>9. {snapshot, published, held, pull, pending} \subseteq Descriptors
    BY <1>1 DEF Init
  <1>5. writes \in Hashes /\ {file, copy, snapshot.hash} \subseteq 1 .. writes
    BY DEF Init, Hashes, First
  <1>6. /\ \A w \in Workers : worker[w].step = "none"
         /\ post.stage = "none"
    BY DEF Init, Idle, NoPost
  <1>7. TypeOK
    <2>1. /\ mirror \subseteq Users /\ paidBy \subseteq Attempts /\ granted \subseteq Users
          /\ lock \in Workers \union {NoOne}
      BY DEF Init
    <2>2. checked \in BOOLEAN
      BY Zenon DEF Init
    <2>3. trouble \in 0 .. MaxTrouble /\ selected \in 0 .. writes
      BY DEF Init
    <2> QED
      BY <2>1, <2>2, <2>3, <1>2, <1>9, <1>5, <1>6 DEF TypeOK
  <1>3. LockInv /\ JobInv /\ PostInv
    BY DEF Init, LockInv, JobInv, PostInv, Idle, NewJob, NoPost
  <1>4. RowsPaid
    BY DEF Init, RowsPaid, Empty
  <1> QED
    BY <1>7, <1>3, <1>4 DEF Frame

\* A step that changes one message, and nothing of the file or the portal.
LEMMA MessageStep ==
    ASSUME Frame, NEW a \in Attempts, NEW j \in Messages,
           job' = [job EXCEPT ![a] = j],
           j.stage = "running" <=> job[a].stage = "running",
           j.stage \in {"sent", "running", "answered"}
               => j.kind \in {"sign", "reset"} /\ j.user \in Users,
           mirror' \in SUBSET Users, trouble' \in 0 .. MaxTrouble,
           UNCHANGED <<fileVars, portalVars, syncVars, historyVars>>
    PROVE  Frame'
  <1> USE DEF fileVars, portalVars, syncVars, historyVars
  <1>1. TypeOK'
    BY DEF Frame, TypeOK
  <1>2. LockInv' /\ PostInv' /\ RowsPaid'
    BY DEF Frame, LockInv, PostInv, RowsPaid
  <1>3. JobInv'
    BY DEF Frame, JobInv, TypeOK
  <1> QED
    BY <1>1, <1>2, <1>3 DEF Frame

LEMMA AskSigninFrame ==
    ASSUME Frame, NEW a \in Attempts, NEW u \in Users, AskSignin(a, u)
    PROVE  Frame'
  <1>1. mirror' \in SUBSET Users /\ trouble' \in 0 .. MaxTrouble
    BY DEF AskSignin, Frame, TypeOK
  <1>2. job[a].stage # "running"
    BY DEF AskSignin
  <1>3. CASE job' = [job EXCEPT ![a] = Sent("sign", u, FALSE)]
    <2> DEFINE j == Sent("sign", u, FALSE)
    <2>1. j \in Messages /\ j.stage = "sent" /\ j.kind = "sign" /\ j.user = u
      BY SentFields
    <2> HIDE DEF j
    <2> QED
      BY <1>1, <1>2, <1>3, <2>1, MessageStep DEF AskSignin, j
  <1>4. CASE job' = [job EXCEPT ![a] = Done("sign", FALSE)]
    <2>1. Done("sign", FALSE) \in Messages /\ Done("sign", FALSE).stage = "done"
      BY DoneFields
    <2> QED
      BY <1>1, <1>2, <1>4, <2>1, MessageStep DEF AskSignin
  <1> QED
    BY <1>3, <1>4 DEF AskSignin

LEMMA AskResetFrame ==
    ASSUME Frame, NEW a \in Attempts, NEW u \in Users, NEW keep \in BOOLEAN,
           AskReset(a, u, keep)
    PROVE  Frame'
  <1> DEFINE j == Sent("reset", u, keep)
  <1>1. j \in Messages /\ j.stage = "sent" /\ j.kind = "reset" /\ j.user = u
    BY SentFields
  <1>2. mirror' \in SUBSET Users /\ trouble' \in 0 .. MaxTrouble
    BY DEF AskReset, Frame, TypeOK
  <1>3. job' = [job EXCEPT ![a] = j] /\ job[a].stage # "running"
    BY DEF AskReset
  <1> HIDE DEF j
  <1> QED
    BY <1>1, <1>2, <1>3, MessageStep DEF AskReset

LEMMA TroubleCounts ==
    ASSUME TypeOK, Trouble
    PROVE  trouble' \in 0 .. MaxTrouble
  BY BoundAssumption DEF TypeOK, Trouble

LEMMA GiveUpFrame ==
    ASSUME Frame, NEW a \in Attempts, GiveUp(a)
    PROVE  Frame'
  <1> DEFINE j == [job[a] EXCEPT !.waits = FALSE]
  <1>1. job[a] \in Messages
    BY DEF Frame, TypeOK
  <1>2. j \in Messages
    BY <1>1, MessageFields
  <1>3. j.stage = job[a].stage /\ j.kind = job[a].kind /\ j.user = job[a].user
    BY <1>1 DEF Messages
  <1>4. j.stage \in {"sent", "running", "answered"}
            => j.kind \in {"sign", "reset"} /\ j.user \in Users
    BY <1>3 DEF Frame, JobInv
  <1>5. mirror' \in SUBSET Users /\ trouble' \in 0 .. MaxTrouble
    BY TroubleCounts DEF GiveUp, Frame, TypeOK
  <1>6. job' = [job EXCEPT ![a] = j]
    BY DEF GiveUp
  <1> HIDE DEF j
  <1> QED
    BY <1>2, <1>3, <1>4, <1>5, <1>6, MessageStep DEF GiveUp

LEMMA FinishFrame ==
    ASSUME Frame, NEW a \in Attempts, Finish(a)
    PROVE  Frame'
  <1>1. job[a] \in Messages /\ job[a].stage = "answered" /\ job[a].user \in Users
    BY DEF Frame, TypeOK, Finish, JobInv
  <1>2. PICK b \in BOOLEAN : job' = [job EXCEPT ![a] = Done(job[a].kind, b)]
    BY DEF Finish
  <1>3. Done(job[a].kind, b) \in Messages /\ Done(job[a].kind, b).stage = "done"
    <2>1. job[a].kind \in {"none", "sign", "reset"}
      BY <1>1 DEF Messages
    <2> QED
      BY <2>1, DoneFields
  <1>4. mirror' \in SUBSET Users
    BY <1>1 DEF Finish, Recorded, Frame, TypeOK
  <1>5. trouble' \in 0 .. MaxTrouble
    BY TroubleCounts DEF Finish, Frame, TypeOK
  <1> QED
    BY <1>1, <1>2, <1>3, <1>4, <1>5, MessageStep DEF Finish

\* A thread that releases the lock leaves all of them idle.
LEMMA ReleaseThreads ==
    ASSUME Frame, NEW w \in Workers, lock = w, Release(w)
    PROVE  /\ worker' \in [Workers -> Threads]
           /\ \A v \in Workers : worker'[v].step = "none"
           /\ lock' = NoOne
           /\ LockInv'
  <1>1. Idle \in Threads /\ Idle.step = "none"
    BY IdleFields DEF Idle
  <1>2. worker' = [worker EXCEPT ![w] = Idle] /\ lock' = NoOne
    BY DEF Release
  <1>3. worker \in [Workers -> Threads]
    BY DEF Frame, TypeOK
  <1>4. \A v \in Workers : worker'[v].step = "none"
    BY <1>1, <1>2, <1>3 DEF Frame, LockInv
  <1>5. NoOne \notin Workers
    BY BoundAssumption
  <1>6. LockInv'
    BY <1>2, <1>4, <1>5 DEF LockInv
  <1> QED
    BY <1>1, <1>2, <1>3, <1>4, <1>6

LEMMA AnsweredMessages ==
    ASSUME Frame, NEW a \in Attempts, NEW b \in BOOLEAN, lock = a, lock' = NoOne,
           Answered(a, b)
    PROVE  job' \in [Attempts -> Messages] /\ JobInv'
  <1>1. job \in [Attempts -> Messages] /\ job[a] \in Messages
    BY DEF Frame, TypeOK
  <1>2. job' = [job EXCEPT ![a] = [job[a] EXCEPT !.stage = "answered", !.ok = b]]
    BY <1>1 DEF Answered
  <1>3. [job[a] EXCEPT !.stage = "answered", !.ok = b] \in Messages
    BY <1>1, MessageFields
  <1>4. /\ job'[a].stage = "answered" /\ job'[a].kind = job[a].kind
        /\ job'[a].user = job[a].user
    BY <1>1, <1>2 DEF Messages
  <1>5. \A x \in Attempts : x # a => job'[x] = job[x]
    BY <1>1, <1>2
  <1>6. a # NoOne
    BY BoundAssumption
  <1>7. job[a].kind \in {"sign", "reset"} /\ job[a].user \in Users
    BY DEF Frame, JobInv
  <1>8. JobInv'
    <2> SUFFICES ASSUME NEW x \in Attempts
                 PROVE  /\ job'[x].stage = "running" <=> lock' = x
                        /\ job'[x].stage \in {"sent", "running", "answered"}
                              => job'[x].kind \in {"sign", "reset"} /\ job'[x].user \in Users
      BY DEF JobInv
    <2>1. CASE x = a
      BY <2>1, <1>4, <1>6, <1>7
    <2>2. CASE x # a
      <3>1. lock # x /\ x # NoOne
        BY <2>2, BoundAssumption
      <3> QED
        BY <2>2, <3>1, <1>5 DEF Frame, JobInv
    <2> QED
      BY <2>1, <2>2
  <1> QED
    BY <1>1, <1>2, <1>3, <1>8

LEMMA BeginFrame ==
    ASSUME Frame, NEW a \in Attempts, Begin(a)
    PROVE  Frame'
  <1> USE DEF fileVars, syncVars, historyVars
  <1>1. /\ job \in [Attempts -> Messages] /\ job[a] \in Messages
        /\ worker \in [Workers -> Threads] /\ a \in Workers /\ a # NoOne /\ a # Upload
    BY BoundAssumption DEF Frame, TypeOK
  <1>2. [job[a] EXCEPT !.stage = "running"] \in Messages
    BY <1>1, MessageFields
  <1>3. job' = [job EXCEPT ![a] = [job[a] EXCEPT !.stage = "running"]]
    BY <1>1 DEF Begin
  <1>4. [Idle EXCEPT !.step = "download"] \in Threads
    BY IdleFields
  <1>5. \A w \in Workers : worker[w].step = "none"
    BY BoundAssumption DEF Begin, Frame, LockInv
  <1>6. /\ worker'[a].step = "download"
        /\ \A w \in Workers : w # a => worker'[w].step = "none"
    BY <1>1, <1>5 DEF Begin, Idle
  <1>7. job'[a].stage = "running" /\ job'[a].kind = job[a].kind /\ job'[a].user = job[a].user
    BY <1>1, <1>3 DEF Messages
  <1>8. TypeOK'
    <2>1. job' \in [Attempts -> Messages] /\ worker' \in [Workers -> Threads]
      BY <1>1, <1>2, <1>3, <1>4 DEF Begin
    <2>2. lock' \in Workers \union {NoOne}
      BY <1>1 DEF Begin
    <2> QED
      BY <2>1, <2>2, <1>6 DEF Begin, Frame, TypeOK
  <1>9. LockInv'
    BY <1>6 DEF Begin, LockInv
  <1>10. JobInv'
    <2>1. \A x \in Attempts : x # a => job'[x] = job[x] /\ job[x].stage # "running"
      BY <1>1, <1>3, BoundAssumption DEF Begin, Frame, JobInv
    <2> QED
      BY <2>1, <1>7 DEF Begin, Frame, JobInv
  <1>11. PostInv' /\ RowsPaid'
    BY <1>1 DEF Begin, Frame, PostInv, RowsPaid
  <1> QED
    BY <1>8, <1>9, <1>10, <1>11 DEF Frame

LEMMA RefuseFrame ==
    ASSUME Frame, NEW a \in Attempts, lock = a, Answered(a, FALSE), Release(a),
           trouble' \in 0 .. MaxTrouble,
           UNCHANGED <<fileVars, snapshot, published, selected, mirror, syncVars,
                       historyVars>>
    PROVE  Frame'
  <1> USE DEF fileVars, syncVars, historyVars
  <1>1. /\ worker' \in [Workers -> Threads]
        /\ \A v \in Workers : worker'[v].step = "none"
        /\ lock' = NoOne /\ LockInv'
    BY ReleaseThreads
  <1>2. job' \in [Attempts -> Messages] /\ JobInv'
    BY <1>1, AnsweredMessages
  <1>3. TypeOK'
    BY <1>1, <1>2 DEF Frame, TypeOK
  <1>4. PostInv' /\ RowsPaid'
    BY <1>1, BoundAssumption DEF Frame, PostInv, RowsPaid
  <1> QED
    BY <1>1, <1>2, <1>3, <1>4 DEF Frame

LEMMA DownloadFrame ==
    ASSUME Frame, NEW a \in Attempts, Download(a)
    PROVE  Frame'
  <1> DEFINE r == job[a].user
             c == data[file]
             n == IF job[a].kind = "sign" THEN Signed(c, r) ELSE Reset(c, r, job[a].keep)
  <1>1. lock = a /\ a \in Workers /\ a # NoOne /\ a # Upload
    BY BoundAssumption DEF Download, Frame, LockInv
  <1>2. job[a] \in Messages /\ r \in Users /\ job[a].kind \in {"sign", "reset"}
    BY <1>1 DEF Frame, TypeOK, JobInv
  <1>3. file \in Hashes /\ c \in Contents
    BY BoundAssumption DEF Frame, TypeOK, Hashes
  <1>4. CASE /\ Allowed(job[a].kind, c, r, job[a].keep)
             /\ writes < MaxWrites /\ writes' = writes + 1
             /\ data' = [data EXCEPT ![writes + 1] = n]
             /\ worker' = [worker EXCEPT ![a].step = "check", ![a].read = file,
                                         ![a].next = writes + 1]
             /\ UNCHANGED <<lock, job, trouble>>
    <2>1. UNCHANGED <<file, snapshot, published, selected, mirror, syncVars, historyVars>>
      BY DEF Download
    <2> USE DEF syncVars, historyVars
    <2>2. n \in Contents /\ \A x \in n.rows : n.credits[x] > 0
      <3>1. \A x \in c.rows : c.credits[x] > 0
        BY <1>3 DEF Frame, RowsPaid
      <3>2. job[a].keep \in BOOLEAN
        BY <1>2 DEF Messages
      <3>3. CASE job[a].kind = "sign"
        <4>1. Signed(c, r) \in Contents
          BY <1>2, <1>3, ContentsFields
        <4>2. \A x \in Signed(c, r).rows : Signed(c, r).credits[x] > 0
          BY <1>2, <1>3, <3>1 DEF Signed, Contents
        <4> QED
          BY <3>3, <4>1, <4>2
      <3>4. CASE job[a].kind = "reset"
        <4>1. r \in c.rows /\ c.credits[r] > 0
          BY <1>4, <3>1, <3>4 DEF Allowed
        <4>2. Reset(c, r, job[a].keep) \in Contents
          BY <4>1, <1>2, <1>3, <3>2, ContentsFields
        <4>3. \A x \in Reset(c, r, job[a].keep).rows :
                  x # r /\ Reset(c, r, job[a].keep).credits[x] = c.credits[x] /\ x \in c.rows
          BY <1>3 DEF Reset, Contents
        <4> QED
          BY <3>1, <3>4, <4>2, <4>3
      <3> QED
        BY <1>2, <3>3, <3>4
    <2> HIDE DEF n
    <2>3. writes + 1 \in Hashes /\ writes \in Nat /\ writes + 1 \in Nat /\ file \in Nat
      BY <1>3, <1>4, BoundAssumption DEF Frame, TypeOK, Hashes
    <2>4. data' \in [Hashes -> Contents] /\ RowsPaid'
      BY <1>4, <2>2, <2>3 DEF Frame, TypeOK, RowsPaid
    <2>5. worker[a] \in Threads /\ worker \in [Workers -> Threads]
      BY <1>1 DEF Frame, TypeOK
    <2>6. worker' = [worker EXCEPT ![a] = [worker[a] EXCEPT !.step = "check", !.read = file,
                                                           !.next = writes + 1]]
      BY <1>4, <2>5
    <2>7. worker' \in [Workers -> Threads]
      BY <1>1, <2>3, <2>5, <2>6, ThreadFields
    <2>8. /\ worker'[a].step = "check" /\ worker'[a].read = file
          /\ worker'[a].next = writes + 1
          /\ \A w \in Workers : w # a => worker'[w] = worker[w] /\ worker[w].step = "none"
      BY <1>1, <2>5, <2>6 DEF Threads, Frame, LockInv
    <2>9. \A w \in Workers : worker'[w].step \in {"check", "store", "save"}
              => {worker'[w].read, worker'[w].next} \subseteq 1 .. writes'
      <3>1. {file, writes + 1} \subseteq 1 .. writes'
        BY <1>4, <2>3 DEF Frame, TypeOK
      <3> QED
        BY <2>8, <3>1
    <2>10. /\ {file, copy, snapshot.hash} \subseteq 1 .. writes' /\ writes' \in Hashes
           /\ post.stage \in {"sent", "locked"} => post.body \in 1 .. writes'
           /\ selected' \in 0 .. writes'
      BY <1>4, <2>1, <2>3 DEF Frame, TypeOK
    <2>11. TypeOK'
      BY <1>4, <2>1, <2>4, <2>7, <2>9, <2>10 DEF Frame, TypeOK
    <2>12. LockInv'
      BY <1>1, <1>4, <2>8 DEF LockInv
    <2>13. JobInv' /\ PostInv'
      BY <1>4, <2>1 DEF Frame, JobInv, PostInv
    <2> QED
      BY <2>4, <2>11, <2>12, <2>13 DEF Frame
  <1>5. CASE Answered(a, FALSE) /\ Release(a) /\ UNCHANGED <<data, writes, trouble>>
    <2>1. trouble' \in 0 .. MaxTrouble
      BY <1>5 DEF Frame, TypeOK
    <2> QED
      BY <1>1, <1>5, <2>1, RefuseFrame DEF Download, fileVars
  <1>6. CASE Trouble /\ Answered(a, FALSE) /\ Release(a) /\ UNCHANGED <<data, writes>>
    <2>1. trouble' \in 0 .. MaxTrouble
      BY <1>6, TroubleCounts DEF Frame
    <2> QED
      BY <1>1, <1>6, <2>1, RefuseFrame DEF Download, fileVars
  <1> QED
    BY <1>4, <1>5, <1>6 DEF Download

LEMMA FailsFrame ==
    ASSUME Frame, NEW w \in Workers, lock = w, Fails(w),
           trouble' \in 0 .. MaxTrouble, file' \in 1 .. writes,
           paidBy' \in SUBSET Attempts, granted' \in SUBSET Users, kept' \in [Users -> Nat],
           UNCHANGED <<data, writes, snapshot, published, selected, mirror, held, copy, pull,
                       pending, checked>>
    PROVE  Frame'
  <1>1. /\ worker' \in [Workers -> Threads]
        /\ \A v \in Workers : worker'[v].step = "none"
        /\ lock' = NoOne /\ LockInv'
    BY ReleaseThreads DEF Fails
  <1>2. RowsPaid'
    BY DEF Frame, RowsPaid
  <1>3. NoOne # Upload /\ NoOne \notin Workers
    BY BoundAssumption
  <1>4. CASE w = Upload
    <2>1. post' = [post EXCEPT !.stage = "failed"] /\ UNCHANGED job
      BY <1>4 DEF Fails
    <2>2. post' \in Posts /\ post'.stage = "failed"
      BY <2>1, PostFields DEF Frame, TypeOK, Posts
    <2>3. TypeOK'
      BY <1>1, <2>1, <2>2 DEF Frame, TypeOK
    <2>4. JobInv'
      <3>1. \A a \in Attempts : a # Upload /\ a # NoOne
        BY BoundAssumption
      <3> QED
        BY <1>1, <1>4, <2>1, <3>1 DEF Frame, JobInv
    <2>5. PostInv'
      BY <1>1, <1>3, <2>2 DEF PostInv
    <2> QED
      BY <1>1, <1>2, <2>3, <2>4, <2>5 DEF Frame
  <1>5. CASE w # Upload
    <2>1. w \in Attempts /\ Answered(w, FALSE) /\ UNCHANGED post
      BY <1>5 DEF Fails
    <2>2. job' \in [Attempts -> Messages] /\ JobInv'
      BY <1>1, <2>1, AnsweredMessages
    <2>3. TypeOK'
      BY <1>1, <2>1, <2>2 DEF Frame, TypeOK
    <2>4. PostInv'
      BY <1>1, <1>3, <2>1 DEF Frame, PostInv
    <2> QED
      BY <1>1, <1>2, <2>2, <2>3, <2>4 DEF Frame
  <1> QED
    BY <1>4, <1>5

\* A step that only moves the thread that holds the lock on.
LEMMA ThreadStep ==
    ASSUME Frame, NEW w \in Workers, lock = w, NEW t \in Threads,
           worker' = [worker EXCEPT ![w] = t], t.step # "none",
           t.read = worker[w].read, t.next = worker[w].next,
           worker[w].step \in {"check", "store", "save"},
           file' \in 1 .. writes,
           paidBy' \in SUBSET Attempts, granted' \in SUBSET Users, kept' \in [Users -> Nat],
           UNCHANGED <<data, writes, snapshot, published, selected, lock, job, post, trouble,
                       mirror, held, copy, pull, pending, checked>>
    PROVE  Frame'
  <1>1. worker \in [Workers -> Threads]
    BY DEF Frame, TypeOK
  <1>2. worker' \in [Workers -> Threads] /\ worker'[w] = t
        /\ \A v \in Workers : v # w => worker'[v] = worker[v]
    BY <1>1
  <1>3. \A v \in Workers : worker'[v].step \in {"check", "store", "save"}
            => {worker'[v].read, worker'[v].next} \subseteq 1 .. writes
    BY <1>2 DEF Frame, TypeOK
  <1>4. TypeOK'
    BY <1>2, <1>3 DEF Frame, TypeOK
  <1>5. LockInv'
    BY <1>2 DEF Frame, LockInv
  <1>6. JobInv' /\ PostInv' /\ RowsPaid'
    BY DEF Frame, JobInv, PostInv, RowsPaid
  <1> QED
    BY <1>4, <1>5, <1>6 DEF Frame

LEMMA CheckFrame ==
    ASSUME Frame, NEW w \in Workers, Check(w)
    PROVE  Frame'
  <1>1. lock = w /\ worker[w].step = "check" /\ worker[w] \in Threads
        /\ worker \in [Workers -> Threads]
    BY DEF Check, Frame, LockInv, TypeOK
  <1>2. /\ UNCHANGED <<data, writes, file, snapshot, published, selected, mirror, held, copy,
                       pull, pending, checked, trouble, paidBy, granted, kept>>
        /\ file \in 1 .. writes /\ paidBy \in SUBSET Attempts /\ granted \in SUBSET Users
        /\ kept \in [Users -> Nat] /\ trouble \in 0 .. MaxTrouble
    BY DEF Check, fileVars, historyVars, Frame, TypeOK
  <1>3. CASE worker' = [worker EXCEPT ![w].step = "store"] /\ UNCHANGED <<lock, job, post>>
    <2> DEFINE t == [worker[w] EXCEPT !.step = "store"]
    <2>1. t \in Threads
      BY <1>1, ThreadFields
    <2>2. t.step = "store" /\ t.read = worker[w].read /\ t.next = worker[w].next
      BY <1>1 DEF Threads
    <2>3. worker' = [worker EXCEPT ![w] = t]
      BY <1>1, <1>3
    <2> HIDE DEF t
    <2> QED
      BY <1>1, <1>2, <1>3, <2>1, <2>2, <2>3, ThreadStep
  <1>4. CASE worker' = [worker EXCEPT ![w].step = "download", ![w].again = TRUE]
              /\ UNCHANGED <<lock, job, post>>
    <2> DEFINE t == [worker[w] EXCEPT !.step = "download", !.again = TRUE]
    <2>1. t \in Threads
      BY <1>1, ThreadFields
    <2>2. t.step = "download" /\ t.read = worker[w].read /\ t.next = worker[w].next
      BY <1>1 DEF Threads
    <2>3. worker' = [worker EXCEPT ![w] = t]
      BY <1>1, <1>4
    <2> HIDE DEF t
    <2> QED
      BY <1>1, <1>2, <1>4, <2>1, <2>2, <2>3, ThreadStep
  <1>5. CASE Fails(w)
    BY <1>1, <1>2, <1>5, FailsFrame
  <1> QED
    BY <1>3, <1>4, <1>5 DEF Check

LEMMA InPlaceTypes ==
    ASSUME Frame, NEW w \in Workers, lock = w, worker[w].step = "store", InPlace(w)
    PROVE  /\ file' \in 1 .. writes
           /\ paidBy' \in SUBSET Attempts /\ granted' \in SUBSET Users
           /\ kept' \in [Users -> Nat]
  <1>1. file' \in 1 .. writes
    BY DEF InPlace, Frame, TypeOK
  <1>2. CASE w = Upload
    BY <1>1, <1>2 DEF InPlace, KindOf, Frame, TypeOK
  <1>3. CASE w # Upload
    <2>1. w \in Attempts /\ job[w].user \in Users
      BY <1>3 DEF Frame, JobInv
    <2>2. paidBy' \in SUBSET Attempts /\ granted' \in SUBSET Users
      BY <2>1 DEF InPlace, Frame, TypeOK
    <2>3. kept' \in [Users -> Nat]
      BY <2>1 DEF InPlace, Frame, TypeOK
    <2> QED
      BY <1>1, <2>2, <2>3
  <1> QED
    BY <1>2, <1>3

LEMMA StoreFrame ==
    ASSUME Frame, NEW w \in Workers, Store(w)
    PROVE  Frame'
  <1>1. lock = w /\ worker[w].step = "store" /\ worker[w] \in Threads
        /\ worker \in [Workers -> Threads]
    BY DEF Store, Frame, LockInv, TypeOK
  <1>2. UNCHANGED <<data, writes, snapshot, published, selected, mirror, held, copy, pull,
                    pending, checked>>
    BY DEF Store
  <1>3. CASE InPlace(w) /\ worker' = [worker EXCEPT ![w].step = "save"]
              /\ UNCHANGED <<lock, job, post, trouble>>
    <2> DEFINE t == [worker[w] EXCEPT !.step = "save"]
    <2>1. t \in Threads
      BY <1>1, ThreadFields
    <2>2. t.step = "save" /\ t.read = worker[w].read /\ t.next = worker[w].next
      BY <1>1 DEF Threads
    <2>3. worker' = [worker EXCEPT ![w] = t]
      BY <1>1, <1>3
    <2> HIDE DEF t
    <2> QED
      BY <1>1, <1>2, <1>3, <2>1, <2>2, <2>3, InPlaceTypes, ThreadStep
  <1>4. CASE Trouble /\ InPlace(w) /\ Fails(w)
    <2>1. trouble' \in 0 .. MaxTrouble
      BY <1>4, TroubleCounts DEF Frame
    <2> QED
      BY <1>1, <1>2, <1>4, <2>1, InPlaceTypes, FailsFrame
  <1>5. CASE Trouble /\ Fails(w) /\ UNCHANGED <<file, historyVars>>
    <2>1. trouble' \in 0 .. MaxTrouble
      BY <1>5, TroubleCounts DEF Frame
    <2>2. /\ file' \in 1 .. writes /\ paidBy' \in SUBSET Attempts /\ granted' \in SUBSET Users
          /\ kept' \in [Users -> Nat]
      BY <1>5 DEF historyVars, Frame, TypeOK
    <2> QED
      BY <1>1, <1>2, <1>5, <2>1, <2>2, FailsFrame
  <1> QED
    BY <1>3, <1>4, <1>5 DEF Store

LEMMA SaveFrame ==
    ASSUME Frame, NEW w \in Workers, Save(w)
    PROVE  Frame'
  <1> DEFINE saved == SavedAs(worker[w].next)
  <1>1. lock = w /\ worker[w].step = "save" /\ worker[w].next \in 1 .. writes
    BY DEF Save, Frame, LockInv, TypeOK
  <1>2. saved \in Descriptors /\ saved.hash \in 1 .. writes
    BY <1>1, SavedAsFields DEF Frame
  <1> HIDE DEF saved
  <1>3. UNCHANGED <<data, writes, file, selected, mirror, held, copy, pull, pending, checked,
                    paidBy, kept>>
    BY DEF Save, fileVars
  <1>4. NoOne # Upload /\ NoOne \notin Workers
    BY BoundAssumption
  <1>5. CASE Fails(w) /\ UNCHANGED <<snapshot, published, granted>>
             /\ trouble' \in 0 .. MaxTrouble
    <2>1. /\ file' \in 1 .. writes /\ paidBy' \in SUBSET Attempts /\ granted' \in SUBSET Users
          /\ kept' \in [Users -> Nat]
      BY <1>3, <1>5 DEF Frame, TypeOK
    <2> QED
      BY <1>1, <1>3, <1>5, <2>1, FailsFrame
  <1>6. CASE /\ w # Upload /\ ~RowHeld
             /\ snapshot' = saved /\ published' \in Descriptors
             /\ granted' \in SUBSET Users /\ trouble' \in 0 .. MaxTrouble
             /\ Answered(w, TRUE) /\ Release(w) /\ UNCHANGED post
    <2>1. w \in Attempts
      BY <1>6
    <2>2. /\ worker' \in [Workers -> Threads]
          /\ \A v \in Workers : worker'[v].step = "none"
          /\ lock' = NoOne /\ LockInv'
      BY <1>1, <1>6, ReleaseThreads
    <2>3. job' \in [Attempts -> Messages] /\ JobInv'
      BY <1>1, <1>6, <2>1, <2>2, AnsweredMessages
    <2>4. TypeOK'
      BY <1>2, <1>3, <1>6, <2>2, <2>3 DEF Frame, TypeOK
    <2>5. PostInv' /\ RowsPaid'
      BY <1>3, <1>4, <1>6, <2>2 DEF Frame, PostInv, RowHeld, RowsPaid
    <2> QED
      BY <2>2, <2>3, <2>4, <2>5 DEF Frame
  <1>7. CASE /\ w = Upload
             /\ snapshot' = saved /\ published' = saved
             /\ post' = [post EXCEPT !.stage = "done", !.new = saved]
             /\ Release(w) /\ UNCHANGED <<job, granted, trouble>>
    <2>1. post' \in Posts
      BY <1>2, <1>7, PostFields DEF Frame, TypeOK, Posts
    <2>2. post'.stage = "done"
      BY <1>7 DEF Frame, TypeOK, Posts
    <2>3. /\ worker' \in [Workers -> Threads]
          /\ \A v \in Workers : worker'[v].step = "none"
          /\ lock' = NoOne /\ LockInv'
      BY <1>1, <1>7, ReleaseThreads
    <2>4. TypeOK'
      BY <1>2, <1>3, <1>7, <2>1, <2>2, <2>3 DEF Frame, TypeOK
    <2>5. JobInv'
      <3>1. \A a \in Attempts : a # Upload /\ a # NoOne
        BY BoundAssumption
      <3> QED
        BY <1>1, <1>7, <2>3, <3>1 DEF Frame, JobInv
    <2>6. PostInv' /\ RowsPaid'
      BY <1>3, <1>4, <2>2, <2>3 DEF Frame, PostInv, RowsPaid
    <2> QED
      BY <2>3, <2>4, <2>5, <2>6 DEF Frame
  <1>8. \/ Fails(w) /\ UNCHANGED <<snapshot, published, granted>>
           /\ (Trouble \/ UNCHANGED trouble)
        \/ /\ w # Upload /\ ~RowHeld
           /\ snapshot' = saved /\ (published' = saved \/ UNCHANGED published)
           /\ (Trouble \/ UNCHANGED trouble)
           /\ granted' = IF KindOf(w) = "sign" THEN granted \union {job[w].user} ELSE granted
           /\ Answered(w, TRUE) /\ Release(w) /\ UNCHANGED post
        \/ /\ w = Upload
           /\ snapshot' = saved /\ published' = saved
           /\ post' = [post EXCEPT !.stage = "done", !.new = saved]
           /\ Release(w) /\ UNCHANGED <<job, granted, trouble>>
    BY Zenon DEF Save, saved
  <1>9. Trouble \/ UNCHANGED trouble => trouble' \in 0 .. MaxTrouble
    BY TroubleCounts DEF Frame, TypeOK
  <1>10. published' = saved \/ UNCHANGED published => published' \in Descriptors
    BY <1>2 DEF Frame, TypeOK
  <1>11. w # Upload /\ granted' = (IF KindOf(w) = "sign" THEN granted \union {job[w].user}
                                                        ELSE granted)
            => granted' \in SUBSET Users
    BY <1>1 DEF Frame, TypeOK, JobInv
  <1> QED
    BY <1>5, <1>6, <1>7, <1>8, <1>9, <1>10, <1>11

LEMMA AcceptFrame ==
    ASSUME Frame, Accept
    PROVE  Frame'
  <1> USE DEF fileVars, portalVars, historyVars
  <1>1. PICK stage \in {"locked", "refused"} :
            /\ post' = [post EXCEPT !.stage = stage]
            /\ stage = "locked" => snapshot = post.of
    BY DEF Accept
  <1>2. post' \in Posts /\ post'.stage = stage /\ post'.of = post.of /\ post'.body = post.body
    <2>1. post \in Posts /\ post.of \in Descriptors
      BY DEF Frame, TypeOK, Posts
    <2>2. post' \in Posts
      BY <1>1, <2>1, PostFields
    <2> QED
      BY <1>1, <2>1, <2>2 DEF Posts
  <1>3. TypeOK'
    BY <1>2 DEF Accept, Frame, TypeOK
  <1>4. lock # Upload
    BY DEF Accept, Frame, PostInv
  <1>5. PostInv'
    BY <1>1, <1>2, <1>4 DEF Accept, PostInv
  <1>6. LockInv' /\ JobInv' /\ RowsPaid'
    BY DEF Accept, Frame, LockInv, JobInv, RowsPaid
  <1> QED
    BY <1>3, <1>5, <1>6 DEF Frame

LEMMA BeginUploadFrame ==
    ASSUME Frame, BeginUpload
    PROVE  Frame'
  <1> USE DEF fileVars, syncVars, historyVars
  <1> DEFINE t == [Idle EXCEPT !.step = "check", !.read = post.of.hash, !.next = post.body]
  <1>1. /\ post.stage = "locked" /\ post.of = snapshot /\ post.of.hash \in 1 .. writes
        /\ post.body \in 1 .. writes /\ post.body \in Nat /\ post.of.hash \in Nat
    BY DEF BeginUpload, RowHeld, Frame, PostInv, TypeOK, Posts, Descriptors
  <1>2. t \in Threads
    BY <1>1, IdleFields
  <1>3. t.step = "check" /\ t.read = post.of.hash /\ t.next = post.body
    BY DEF Idle
  <1>4. lock' = Upload /\ worker' = [worker EXCEPT ![Upload] = t] /\ lock = NoOne
    BY DEF BeginUpload
  <1> HIDE DEF t
  <1>5. worker \in [Workers -> Threads] /\ Upload \in Workers /\ NoOne \notin Workers
    BY BoundAssumption DEF Frame, TypeOK
  <1>6. /\ worker' \in [Workers -> Threads] /\ worker'[Upload] = t
        /\ \A w \in Workers : w # Upload => worker'[w] = worker[w] /\ worker[w].step = "none"
    BY <1>2, <1>4, <1>5 DEF Frame, LockInv
  <1>7. \A w \in Workers : worker'[w].step \in {"check", "store", "save"}
            => {worker'[w].read, worker'[w].next} \subseteq 1 .. writes
    BY <1>1, <1>3, <1>6
  <1>8. TypeOK'
    BY <1>4, <1>6, <1>7 DEF BeginUpload, Frame, TypeOK
  <1>9. LockInv'
    BY <1>3, <1>4, <1>6 DEF LockInv
  <1>10. JobInv'
    <2>1. \A a \in Attempts : a # Upload /\ a # NoOne
      BY BoundAssumption
    <2> QED
      BY <1>4, <2>1 DEF BeginUpload, Frame, JobInv
  <1>11. PostInv' /\ RowsPaid'
    BY <1>1 DEF BeginUpload, Frame, PostInv, RowsPaid
  <1> QED
    BY <1>8, <1>9, <1>10, <1>11 DEF Frame

\* A step that leaves the file, the threads and the messages as they are.
LEMMA QuietStep ==
    ASSUME Frame,
           UNCHANGED <<data, writes, file, lock, worker, job, mirror, paidBy, granted, kept>>,
           snapshot' \in Descriptors, snapshot'.hash \in 1 .. writes, published' \in Descriptors,
           selected' \in 0 .. writes,
           held' \in Descriptors, copy' \in 1 .. writes, pull' \in Descriptors,
           pending' \in Descriptors, checked' \in BOOLEAN, trouble' \in 0 .. MaxTrouble,
           post' \in Posts, post'.stage \in {"sent", "locked"} => post'.body \in 1 .. writes,
           post'.stage = "locked" <=> post.stage = "locked",
           post'.stage = "locked" => post'.of = post.of /\ snapshot' = snapshot
    PROVE  Frame'
  <1>1. TypeOK'
    BY DEF Frame, TypeOK
  <1>2. LockInv' /\ JobInv' /\ RowsPaid'
    BY DEF Frame, LockInv, JobInv, RowsPaid
  <1>3. PostInv'
    BY DEF Frame, PostInv
  <1> QED
    BY <1>1, <1>2, <1>3 DEF Frame

\* What QuietStep asks of a variable that stays as it is.
LEMMA FrameTypes ==
    ASSUME Frame
    PROVE  /\ snapshot \in Descriptors /\ snapshot.hash \in 1 .. writes
           /\ published \in Descriptors /\ selected \in 0 .. writes
           /\ held \in Descriptors /\ copy \in 1 .. writes /\ file \in 1 .. writes
           /\ pull \in Descriptors /\ pending \in Descriptors /\ checked \in BOOLEAN
           /\ trouble \in 0 .. MaxTrouble /\ post \in Posts
           /\ post.stage \in {"sent", "locked"} => post.body \in 1 .. writes
           /\ Nothing \in Descriptors
  BY DEF Frame, TypeOK, Nothing, Descriptors

LEMMA SelectFrame ==
    ASSUME Frame, Select \/ SelectSlowly \/ SaveSelected
    PROVE  Frame'
  <1> USE FrameTypes DEF fileVars, syncVars, historyVars
  <1>1. CASE Select
    <2>1. SavedAs(file) \in Descriptors /\ SavedAs(file).hash \in 1 .. writes
      BY SavedAsFields DEF Frame
    <2> QED
      BY <1>1, <2>1, QuietStep DEF Select, RowHeld
  <1>2. CASE SelectSlowly
    <2>1. trouble' \in 0 .. MaxTrouble
      BY <1>2, TroubleCounts DEF SelectSlowly, Frame
    <2>2. selected' \in 0 .. writes
      BY <1>2, BoundAssumption DEF SelectSlowly, Frame, TypeOK, Hashes
    <2> QED
      BY <1>2, <2>1, <2>2, QuietStep DEF SelectSlowly
  <1>3. CASE SaveSelected
    <2>1. selected \in 1 .. writes
      BY <1>3 DEF SaveSelected
    <2>2. SavedAs(selected) \in Descriptors /\ SavedAs(selected).hash \in 1 .. writes
      BY <2>1, SavedAsFields DEF Frame
    <2>3. 0 \in 0 .. writes
      BY BoundAssumption DEF Frame, TypeOK, Hashes
    <2> QED
      BY <1>3, <2>2, <2>3, QuietStep DEF SaveSelected, RowHeld
  <1> QED
    BY <1>1, <1>2, <1>3

LEMMA HeartbeatFrame ==
    ASSUME Frame,
           Recover \/ Retry \/ StopWaiting \/ PostAnswer \/ Deliver \/ Repull \/ PullDone
    PROVE  Frame'
  <1> USE DEF fileVars, portalVars, historyVars
  <1>1. CASE Recover
    <2>1. pending' \in Descriptors /\ checked' \in BOOLEAN
      BY <1>1, FrameTypes DEF Recover
    <2> QED
      BY <1>1, <2>1, FrameTypes, QuietStep DEF Recover
  <1>2. CASE Retry
    <2>1. post' = [NoPost EXCEPT !.stage = "sent", !.of = pending, !.body = copy, !.waits = TRUE]
      BY <1>2 DEF Retry
    <2>2. copy \in Nat
      BY FrameTypes
    <2>3. post' \in Posts
      BY <2>1, <2>2, FrameTypes, NoPostFields
    <2>4. post'.stage = "sent" /\ post'.body = copy
      BY <2>1 DEF NoPost
    <2>5. post.stage = "none"
      BY <1>2 DEF Retry
    <2> QED
      BY <1>2, <2>3, <2>4, <2>5, FrameTypes, QuietStep DEF Retry
  <1>3. CASE StopWaiting
    <2>1. post' = [post EXCEPT !.waits = FALSE]
      BY <1>3 DEF StopWaiting
    <2>2. post' \in Posts
      BY <2>1, FrameTypes, PostFields
    <2>3. post'.stage = post.stage /\ post'.of = post.of /\ post'.body = post.body
      BY <2>1, FrameTypes DEF Posts
    <2>4. trouble' \in 0 .. MaxTrouble
      BY <1>3, TroubleCounts DEF StopWaiting, Frame
    <2> QED
      BY <1>3, <2>2, <2>3, <2>4, FrameTypes, QuietStep DEF StopWaiting
  <1>4. CASE PostAnswer
    <2>1. post' = NoPost /\ post' \in Posts /\ post'.stage = "none"
      <3>1. post' = NoPost /\ NoPost.stage = "none"
        BY <1>4 DEF PostAnswer, NoPost
      <3>2. 0 \in Nat
        OBVIOUS
      <3>3. NoPost \in Posts
        BY <3>2, FrameTypes, NoPostFields
      <3> QED
        BY <3>1, <3>3
    <2>2. post.new \in Descriptors /\ post.stage # "locked"
      BY <1>4, FrameTypes DEF PostAnswer, Posts
    <2>3. pending' \in Descriptors /\ held' \in Descriptors
      BY <1>4, <2>2, FrameTypes DEF PostAnswer
    <2> QED
      BY <1>4, <2>1, <2>2, <2>3, FrameTypes, QuietStep DEF PostAnswer
  <1>5. CASE Deliver
    <2>1. held' \in Descriptors /\ pull' \in Descriptors
      BY <1>5, FrameTypes DEF Deliver
    <2> QED
      BY <1>5, <2>1, FrameTypes, QuietStep DEF Deliver
  <1>6. CASE Repull
    BY <1>6, FrameTypes, QuietStep DEF Repull
  <1>7. CASE PullDone
    <2>1. copy' \in 1 .. writes
      BY <1>7, FrameTypes DEF PullDone
    <2>2. trouble' \in 0 .. MaxTrouble
      BY <1>7, TroubleCounts, FrameTypes DEF PullDone, Frame
    <2> QED
      BY <1>7, <2>1, <2>2, FrameTypes, QuietStep DEF PullDone
  <1> QED
    BY <1>1, <1>2, <1>3, <1>4, <1>5, <1>6, <1>7

LEMMA RestartFrame ==
    ASSUME Frame, Restart
    PROVE  Frame'
  <1> USE DEF fileVars, portalVars, historyVars
  <1>1. job \in [Attempts -> Messages] /\ post \in Posts
    BY DEF Frame, TypeOK
  <1>2. job' = [a \in Attempts |-> [job[a] EXCEPT !.waits = FALSE]]
    BY DEF Restart
  <1>3. \A a \in Attempts :
            /\ job'[a] \in Messages /\ job'[a].stage = job[a].stage
            /\ job'[a].kind = job[a].kind /\ job'[a].user = job[a].user
    <2> SUFFICES ASSUME NEW a \in Attempts
                 PROVE  /\ job'[a] \in Messages /\ job'[a].stage = job[a].stage
                        /\ job'[a].kind = job[a].kind /\ job'[a].user = job[a].user
      OBVIOUS
    <2>1. job'[a] = [job[a] EXCEPT !.waits = FALSE] /\ job[a] \in Messages
      BY <1>1, <1>2
    <2>2. job'[a] \in Messages
      BY <2>1, MessageFields
    <2> QED
      BY <2>1, <2>2 DEF Messages
  <1>4. job' \in [Attempts -> Messages]
    BY <1>2, <1>3
  <1>5. post' \in Posts /\ post'.stage = post.stage /\ post'.of = post.of /\ post'.body = post.body
    <2>1. post' = [post EXCEPT !.waits = FALSE]
      BY DEF Restart
    <2>2. post' \in Posts
      BY <2>1, FrameTypes, PostFields
    <2> QED
      BY <1>1, <2>1, <2>2 DEF Posts
  <1>6. trouble' \in 0 .. MaxTrouble
    BY TroubleCounts DEF Restart, Frame
  <1>7. pull' \in Descriptors /\ checked' \in BOOLEAN
    BY FrameTypes DEF Restart
  <1>8. TypeOK'
    BY <1>4, <1>5, <1>6, <1>7 DEF Restart, Frame, TypeOK
  <1>9. JobInv'
    BY <1>3 DEF Restart, Frame, JobInv
  <1>10. LockInv' /\ PostInv' /\ RowsPaid'
    BY <1>5 DEF Restart, Frame, LockInv, PostInv, RowsPaid
  <1> QED
    BY <1>8, <1>9, <1>10 DEF Frame

LEMMA GameEditThreads ==
    ASSUME Frame, GameEdit
    PROVE  /\ worker' \in [Workers -> Threads]
           /\ \A w \in Workers :
                 /\ worker'[w].step = worker[w].step /\ worker'[w].read = worker[w].read
                 /\ worker'[w].next = worker[w].next
                 /\ worker'[w].late = IF worker[w].step = "store" THEN worker[w].late + 1
                                                                  ELSE worker[w].late
  <1>1. worker \in [Workers -> Threads]
    BY DEF Frame, TypeOK
  <1>2. worker' = [w \in Workers |->
                     IF worker[w].step = "store"
                     THEN [worker[w] EXCEPT !.late = worker[w].late + 1] ELSE worker[w]]
    BY DEF GameEdit
  <1>3. \A w \in Workers :
            /\ worker'[w] \in Threads
            /\ worker'[w].step = worker[w].step /\ worker'[w].read = worker[w].read
            /\ worker'[w].next = worker[w].next
            /\ worker'[w].late = IF worker[w].step = "store" THEN worker[w].late + 1
                                                             ELSE worker[w].late
    <2> SUFFICES ASSUME NEW w \in Workers
                 PROVE  /\ worker'[w] \in Threads
                        /\ worker'[w].step = worker[w].step /\ worker'[w].read = worker[w].read
                        /\ worker'[w].next = worker[w].next
                        /\ worker'[w].late = IF worker[w].step = "store" THEN worker[w].late + 1
                                                                         ELSE worker[w].late
      OBVIOUS
    <2>1. worker[w] \in Threads
      BY <1>1
    <2>2. CASE worker[w].step = "store"
      <3>1. worker'[w] = [worker[w] EXCEPT !.late = worker[w].late + 1]
        BY <1>2, <2>2
      <3>2. worker[w].late + 1 \in Nat
        BY <2>1 DEF Threads
      <3>3. worker'[w] \in Threads
        BY <2>1, <3>1, <3>2, ThreadFields
      <3> QED
        BY <2>1, <2>2, <3>1, <3>3 DEF Threads
    <2>3. CASE worker[w].step # "store"
      BY <1>2, <2>1, <2>3
    <2> QED
      BY <2>2, <2>3
  <1> QED
    BY <1>2, <1>3

LEMMA GameEditFrame ==
    ASSUME Frame, GameEdit
    PROVE  Frame'
  <1> USE DEF syncVars, historyVars
  <1> DEFINE n == [data[file] EXCEPT !.edits = data[file].edits + 1]
  <1>1. file \in Hashes /\ writes + 1 \in Hashes /\ writes \in Nat /\ file \in 1 .. writes
    BY BoundAssumption DEF GameEdit, Frame, TypeOK, Hashes
  <1>2. data[file] \in Contents /\ data \in [Hashes -> Contents]
    BY <1>1 DEF Frame, TypeOK
  <1>3. n \in Contents /\ n.rows = data[file].rows /\ n.credits = data[file].credits
    <2>1. n.rows = data[file].rows /\ n.credits = data[file].credits
      BY <1>2 DEF Contents
    <2>2. n \in Contents
      BY <1>2, EditFields
    <2> QED
      BY <2>1, <2>2
  <1>4. data' = [data EXCEPT ![writes + 1] = n] /\ writes' = writes + 1 /\ file' = writes + 1
    BY <1>1, <1>2 DEF GameEdit
  <1> HIDE DEF n
  <1>5. data' \in [Hashes -> Contents] /\ RowsPaid'
    BY <1>1, <1>2, <1>3, <1>4 DEF Frame, RowsPaid
  <1>6. \A i \in 0 .. writes : i \in 0 .. writes'
    BY <1>1, <1>4
  <1>7. \A i \in 1 .. writes : i \in 1 .. writes'
    BY <1>1, <1>4
  <1>8. writes' \in Hashes /\ file' \in 1 .. writes'
    BY <1>1, <1>4
  <1>9. trouble' \in 0 .. MaxTrouble
    BY TroubleCounts DEF GameEdit, Frame
  <1>10. \A w \in Workers : worker'[w].step \in {"check", "store", "save"}
             => {worker'[w].read, worker'[w].next} \subseteq 1 .. writes'
    BY <1>7, GameEditThreads DEF Frame, TypeOK
  <1>11. TypeOK'
    BY <1>5, <1>6, <1>7, <1>8, <1>9, <1>10, GameEditThreads DEF GameEdit, Frame, TypeOK
  <1>12. LockInv' /\ JobInv' /\ PostInv'
    BY GameEditThreads DEF GameEdit, Frame, LockInv, JobInv, PostInv
  <1> QED
    BY <1>5, <1>11, <1>12 DEF Frame

LEMMA NextFrame ==
    ASSUME Frame, [SigninNext]_signinVars
    PROVE  Frame'
  <1>1. CASE UNCHANGED signinVars
    BY <1>1 DEF signinVars, fileVars, portalVars, syncVars, historyVars, Frame, TypeOK, LockInv,
                JobInv, PostInv, RowsPaid
  <1>2. CASE AskNext
    BY <1>2, AskSigninFrame, AskResetFrame DEF AskNext
  <1>3. CASE \E a \in Attempts : GiveUp(a) \/ Finish(a)
    BY <1>3, GiveUpFrame, FinishFrame
  <1>4. CASE WorkerNext
    <2>1. CASE \E a \in Attempts : Begin(a) \/ Download(a)
      BY <2>1, BeginFrame, DownloadFrame
    <2>2. CASE \E w \in Workers : Check(w) \/ Store(w) \/ Save(w)
      BY <2>2, CheckFrame, StoreFrame, SaveFrame
    <2> QED
      BY <1>4, <2>1, <2>2, BeginUploadFrame DEF WorkerNext
  <1>5. CASE Accept \/ Select \/ SelectSlowly \/ SaveSelected
    BY <1>5, AcceptFrame, SelectFrame
  <1>6. CASE Recover \/ Retry \/ StopWaiting \/ PostAnswer \/ Deliver \/ Repull \/ PullDone
    BY <1>6, HeartbeatFrame
  <1>7. CASE Restart \/ GameEdit
    BY <1>7, RestartFrame, GameEditFrame
  <1> QED
    BY <1>1, <1>2, <1>3, <1>4, <1>5, <1>6, <1>7 DEF SigninNext

\* The types, the lock and the stages of threads, messages and uploads agree.
THEOREM SigninFrame == SigninSpec => []Frame
  BY InitFrame, NextFrame, PTL DEF SigninSpec

\* The variables keep their types: every hash in use is that of a file that was
\* made, and no credit is taken back that was not given.
THEOREM SigninTypeCorrect == SigninSpec => []TypeOK
  <1>1. Frame => TypeOK
    BY DEF Frame
  <1> QED
    BY <1>1, SigninFrame, PTL

-----------------------------------------------------------------------------
(* A success is shown only for a reward that was paid: the answer, and the *)
(* thread before it, know it already.                                      *)

Paid(a) ==
    /\ worker[a].step = "save" /\ job[a].kind = "sign" => a \in paidBy
    /\ job[a].stage = "answered" /\ job[a].ok /\ job[a].kind = "sign" => a \in paidBy
    /\ job[a].shown /\ job[a].kind # "reset" => a \in paidBy

PaidInv == \A a \in Attempts : Paid(a)

\* A message that is left alone, or that nobody waits for any more.
LEMMA PaidKept ==
    ASSUME NEW a \in Attempts, Paid(a), paidBy \subseteq paidBy',
           worker'[a].step = "save" => worker[a].step = "save",
           job'[a].kind = job[a].kind, job'[a].stage = job[a].stage, job'[a].ok = job[a].ok,
           job'[a].shown = job[a].shown
    PROVE  Paid(a)'
  BY DEF Paid

LEMMA PaidSame ==
    ASSUME PaidInv, UNCHANGED <<worker, job, paidBy>>
    PROVE  PaidInv'
  BY DEF PaidInv, Paid

LEMMA AskPaid ==
    ASSUME Frame, PaidInv, NEW a \in Attempts, NEW u \in Users,
           AskSignin(a, u) \/ \E keep \in BOOLEAN : AskReset(a, u, keep)
    PROVE  PaidInv'
  <1> USE DEF portalVars, historyVars
  <1>1. job \in [Attempts -> Messages] /\ UNCHANGED <<worker, paidBy>>
    BY DEF AskSignin, AskReset, Frame, TypeOK
  <1>2. worker[a].step # "save"
    BY DEF AskSignin, AskReset, Frame, LockInv, JobInv
  <1>3. PICK j \in Messages : job' = [job EXCEPT ![a] = j] /\ j.ok = FALSE /\ j.shown = FALSE
    <2>1. CASE AskSignin(a, u) /\ u \notin mirror
      <3> DEFINE j == Sent("sign", u, FALSE)
      <3>1. job' = [job EXCEPT ![a] = j]
        BY <2>1 DEF AskSignin
      <3>2. j \in Messages /\ j.ok = FALSE /\ j.shown = FALSE
        BY DEF Sent, NewJob, Messages
      <3> QED
        BY <3>1, <3>2
    <2>2. CASE AskSignin(a, u) /\ u \in mirror
      <3> DEFINE j == Done("sign", FALSE)
      <3>1. job' = [job EXCEPT ![a] = j]
        BY <2>2 DEF AskSignin
      <3>2. j \in Messages /\ j.ok = FALSE /\ j.shown = FALSE
        BY DEF Done, NewJob, Messages
      <3> QED
        BY <3>1, <3>2
    <2>3. CASE \E keep \in BOOLEAN : AskReset(a, u, keep)
      <3>1. PICK keep \in BOOLEAN : AskReset(a, u, keep)
        BY <2>3
      <3> DEFINE j == Sent("reset", u, keep)
      <3>2. job' = [job EXCEPT ![a] = j]
        BY <3>1 DEF AskReset
      <3>3. j \in Messages /\ j.ok = FALSE /\ j.shown = FALSE
        BY DEF Sent, NewJob, Messages
      <3> QED
        BY <3>2, <3>3
    <2> QED
      BY <2>1, <2>2, <2>3 DEF AskSignin
  <1>4. Paid(a)'
    BY <1>1, <1>2, <1>3 DEF Paid
  <1>5. \A x \in Attempts : x # a => job'[x] = job[x]
    BY <1>1, <1>3
  <1>6. \A x \in Attempts : x # a => Paid(x)'
    BY <1>1, <1>5, PaidKept DEF PaidInv
  <1> QED
    BY <1>4, <1>6 DEF PaidInv

LEMMA FinishPaid ==
    ASSUME Frame, PaidInv, NEW a \in Attempts, Finish(a)
    PROVE  PaidInv'
  <1> USE DEF portalVars, historyVars
  <1>1. job \in [Attempts -> Messages] /\ UNCHANGED <<worker, paidBy>>
    BY DEF Finish, Frame, TypeOK
  <1>2. worker[a].step # "save" /\ job[a].stage = "answered" /\ job[a].kind \in {"sign", "reset"}
    BY DEF Finish, Frame, LockInv, JobInv
  <1>3. PICK b \in BOOLEAN : job' = [job EXCEPT ![a] = Done(job[a].kind, b)] /\ (b => job[a].ok)
    BY DEF Finish
  <1>4. /\ job'[a].stage = "done" /\ job'[a].shown = b /\ job'[a].kind = job[a].kind
        /\ \A x \in Attempts : x # a => job'[x] = job[x]
    BY <1>1, <1>3 DEF Done, NewJob
  <1>5. Paid(a)'
    BY <1>1, <1>2, <1>3, <1>4 DEF Paid, PaidInv
  <1>6. \A x \in Attempts : x # a => Paid(x)'
    BY <1>1, <1>4, PaidKept DEF PaidInv
  <1> QED
    BY <1>5, <1>6 DEF PaidInv

LEMMA FailsPaid ==
    ASSUME Frame, PaidInv, NEW w \in Workers, lock = w, Release(w), paidBy \subseteq paidBy',
           \/ UNCHANGED job
           \/ w \in Attempts /\ Answered(w, FALSE)
    PROVE  PaidInv'
  <1>1. job \in [Attempts -> Messages] /\ \A v \in Workers : worker'[v].step = "none"
    BY ReleaseThreads DEF Frame, TypeOK
  <1>2. CASE UNCHANGED job
    BY <1>1, <1>2, PaidKept DEF PaidInv
  <1>3. CASE w \in Attempts /\ Answered(w, FALSE)
    <2>1. /\ job'[w].ok = FALSE /\ job'[w].shown = job[w].shown /\ job'[w].kind = job[w].kind
          /\ \A x \in Attempts : x # w => job'[x] = job[x]
      BY <1>1, <1>3 DEF Answered, Messages
    <2>2. Paid(w)'
      BY <1>1, <1>3, <2>1 DEF Paid, PaidInv
    <2>3. \A x \in Attempts : x # w => Paid(x)'
      BY <1>1, <2>1, PaidKept DEF PaidInv
    <2> QED
      BY <2>2, <2>3 DEF PaidInv
  <1> QED
    BY <1>2, <1>3

\* A thread moves on, but not to the last step.
LEMMA ThreadPaid ==
    ASSUME Frame, PaidInv, UNCHANGED paidBy,
           \A a \in Attempts : worker'[a].step = "save" => worker[a].step = "save",
           \A a \in Attempts : job'[a].kind = job[a].kind /\ job'[a].ok = job[a].ok
                               /\ job'[a].shown = job[a].shown,
           \A a \in Attempts : job'[a].stage = "answered" => job[a].stage = "answered"
    PROVE  PaidInv'
  BY DEF PaidInv, Paid

LEMMA BeginPaid ==
    ASSUME Frame, PaidInv, NEW a \in Attempts, Begin(a)
    PROVE  PaidInv'
  <1> USE DEF historyVars
  <1>1. job \in [Attempts -> Messages] /\ worker \in [Workers -> Threads]
    BY DEF Frame, TypeOK
  <1>2. \A x \in Attempts : worker'[x].step = "save" => worker[x].step = "save"
    BY <1>1 DEF Begin, Idle
  <1>3. \A x \in Attempts :
            /\ job'[x].kind = job[x].kind /\ job'[x].ok = job[x].ok
            /\ job'[x].shown = job[x].shown
            /\ job'[x].stage = "answered" => job[x].stage = "answered"
    BY <1>1 DEF Begin, Messages
  <1> QED
    BY <1>2, <1>3, ThreadPaid DEF Begin

LEMMA DownloadPaid ==
    ASSUME Frame, PaidInv, NEW a \in Attempts, Download(a)
    PROVE  PaidInv'
  <1> USE DEF historyVars
  <1>1. worker \in [Workers -> Threads] /\ lock = a /\ a \in Workers /\ UNCHANGED paidBy
    BY DEF Download, Frame, TypeOK, LockInv
  <1>2. CASE Answered(a, FALSE) /\ Release(a)
    BY <1>1, <1>2, FailsPaid
  <1>3. CASE worker' = [worker EXCEPT ![a].step = "check", ![a].read = file,
                                       ![a].next = writes + 1] /\ UNCHANGED job
    <2>1. \A x \in Attempts : worker'[x].step = "save" => worker[x].step = "save"
      BY <1>1, <1>3 DEF Threads
    <2> QED
      BY <1>1, <1>3, <2>1, ThreadPaid
  <1> QED
    BY <1>2, <1>3 DEF Download

LEMMA CheckPaid ==
    ASSUME Frame, PaidInv, NEW w \in Workers, Check(w)
    PROVE  PaidInv'
  <1> USE DEF historyVars
  <1>1. worker \in [Workers -> Threads] /\ lock = w /\ UNCHANGED paidBy
    BY DEF Check, Frame, TypeOK, LockInv
  <1>2. CASE Fails(w)
    BY <1>1, <1>2, FailsPaid DEF Fails
  <1>3. CASE /\ \/ worker' = [worker EXCEPT ![w].step = "store"]
                \/ worker' = [worker EXCEPT ![w].step = "download", ![w].again = TRUE]
             /\ UNCHANGED job
    <2>1. \A x \in Attempts : worker'[x].step = "save" => worker[x].step = "save"
      BY <1>1, <1>3 DEF Threads
    <2> QED
      BY <1>1, <1>3, <2>1, ThreadPaid
  <1> QED
    BY <1>2, <1>3 DEF Check

LEMMA StorePaid ==
    ASSUME Frame, PaidInv, NEW w \in Workers, Store(w)
    PROVE  PaidInv'
  <1> USE DEF historyVars
  <1>1. worker \in [Workers -> Threads] /\ lock = w
    BY DEF Store, Frame, TypeOK, LockInv
  <1>2. paidBy \subseteq paidBy'
    BY DEF Store, InPlace
  <1>3. CASE Fails(w)
    BY <1>1, <1>2, <1>3, FailsPaid DEF Fails
  <1>4. CASE InPlace(w) /\ worker' = [worker EXCEPT ![w].step = "save"] /\ UNCHANGED job
    <2>1. \A x \in Attempts : x # w => worker'[x] = worker[x]
      BY <1>1, <1>4
    <2>2. ASSUME w \in Attempts PROVE Paid(w)'
      <3>1. w # Upload
        BY <2>2, BoundAssumption
      <3>2. job[w].kind = "sign" => w \in paidBy'
        BY <1>4, <3>1 DEF InPlace, KindOf
      <3> QED
        BY <1>2, <1>4, <2>2, <3>2 DEF Paid, PaidInv
    <2>3. \A x \in Attempts : x # w => Paid(x)'
      BY <1>2, <1>4, <2>1, PaidKept DEF PaidInv
    <2> QED
      BY <2>2, <2>3 DEF PaidInv
  <1> QED
    BY <1>3, <1>4 DEF Store

LEMMA SavePaid ==
    ASSUME Frame, PaidInv, NEW w \in Workers, Save(w)
    PROVE  PaidInv'
  <1> USE DEF historyVars
  <1>1. lock = w /\ worker[w].step = "save" /\ UNCHANGED paidBy /\ job \in [Attempts -> Messages]
    BY DEF Save, Frame, TypeOK, LockInv
  <1>2. CASE Fails(w)
    BY <1>1, <1>2, FailsPaid DEF Fails
  <1>3. CASE w = Upload /\ Release(w) /\ UNCHANGED job
    BY <1>1, <1>3, FailsPaid
  <1>4. CASE w # Upload /\ Answered(w, TRUE) /\ Release(w)
    <2>1. w \in Attempts /\ \A v \in Workers : worker'[v].step = "none"
      BY <1>1, <1>4, ReleaseThreads
    <2>2. /\ job'[w].shown = job[w].shown /\ job'[w].kind = job[w].kind
          /\ \A x \in Attempts : x # w => job'[x] = job[x]
      BY <1>1, <1>4, <2>1 DEF Answered, Messages
    <2>3. Paid(w)'
      BY <1>1, <2>1, <2>2 DEF Paid, PaidInv
    <2>4. \A x \in Attempts : x # w => Paid(x)'
      BY <1>1, <2>1, <2>2, PaidKept DEF PaidInv
    <2> QED
      BY <2>1, <2>3, <2>4 DEF PaidInv
  <1> QED
    BY <1>2, <1>3, <1>4 DEF Save

LEMMA NextPaid ==
    ASSUME Frame, PaidInv, [SigninNext]_signinVars
    PROVE  PaidInv'
  <1> USE DEF fileVars, portalVars, syncVars, historyVars
  <1>1. CASE UNCHANGED signinVars
    BY <1>1, PaidSame DEF signinVars
  <1>2. CASE AskNext
    BY <1>2, AskPaid DEF AskNext
  <1>3. CASE \E a \in Attempts : GiveUp(a)
    <2>1. job \in [Attempts -> Messages] /\ UNCHANGED <<worker, paidBy>>
      BY <1>3 DEF GiveUp, Frame, TypeOK
    <2>2. \A x \in Attempts : /\ job'[x].kind = job[x].kind /\ job'[x].ok = job[x].ok
                             /\ job'[x].shown = job[x].shown /\ job'[x].stage = job[x].stage
      BY <1>3, <2>1 DEF GiveUp, Messages
    <2> QED
      BY <2>1, <2>2, ThreadPaid
  <1>4. CASE \E a \in Attempts : Finish(a)
    BY <1>4, FinishPaid
  <1>5. CASE \E a \in Attempts : Begin(a) \/ Download(a)
    BY <1>5, BeginPaid, DownloadPaid
  <1>6. CASE \E w \in Workers : Check(w) \/ Store(w) \/ Save(w)
    BY <1>6, CheckPaid, StorePaid, SavePaid
  <1>7. CASE BeginUpload
    <2>1. worker \in [Workers -> Threads] /\ \A a \in Attempts : a # Upload
      BY BoundAssumption DEF Frame, TypeOK
    <2>2. \A a \in Attempts : worker'[a] = worker[a]
      BY <1>7, <2>1 DEF BeginUpload
    <2> QED
      BY <1>7, <2>2, ThreadPaid DEF BeginUpload
  <1>8. CASE Accept \/ Select \/ SelectSlowly \/ SaveSelected
    BY <1>8, PaidSame DEF Accept, Select, SelectSlowly, SaveSelected
  <1>9. CASE Recover \/ Retry \/ StopWaiting \/ PostAnswer \/ Deliver \/ Repull \/ PullDone
    BY <1>9, PaidSame DEF Recover, Retry, StopWaiting, PostAnswer, Deliver, Repull, PullDone
  <1>10. CASE Restart
    <2>1. job \in [Attempts -> Messages] /\ UNCHANGED <<worker, paidBy>>
      BY <1>10 DEF Restart, Frame, TypeOK
    <2>2. \A x \in Attempts : /\ job'[x].kind = job[x].kind /\ job'[x].ok = job[x].ok
                             /\ job'[x].shown = job[x].shown /\ job'[x].stage = job[x].stage
      BY <1>10, <2>1 DEF Restart, Messages
    <2> QED
      BY <2>1, <2>2, ThreadPaid
  <1>11. CASE GameEdit
    BY <1>11, GameEditThreads, ThreadPaid DEF GameEdit
  <1> QED
    BY <1>1, <1>2, <1>3, <1>4, <1>5, <1>6, <1>7, <1>8, <1>9, <1>10, <1>11
       DEF SigninNext, WorkerNext

\* A member who is told of a success has been paid, whatever was lost on the way.
THEOREM ShownMeansPaidAlways == SigninSpec => []ShownMeansPaid
  <1>1. Init => PaidInv
    BY DEF Init, PaidInv, Paid, NewJob, Idle
  <1>2. PaidInv => ShownMeansPaid
    BY DEF PaidInv, Paid, ShownMeansPaid
  <1> QED
    BY <1>1, <1>2, NextPaid, SigninFrame, PTL DEF SigninSpec

-----------------------------------------------------------------------------
(* What every step leaves alone: files that were made, what a message that *)
(* is being served asks for.                                               *)

LEMMA DataKept ==
    ASSUME Frame, [SigninNext]_signinVars
    PROVE  /\ writes \in Nat /\ writes' \in Nat /\ writes <= writes'
           /\ \A h \in 1 .. writes : data'[h] = data[h]
  <1> USE DEF fileVars, portalVars, syncVars, historyVars
  <1>1. /\ writes \in Nat /\ writes + 1 \notin 1 .. writes
        /\ data \in [Hashes -> Contents] /\ 1 .. writes \subseteq Hashes
    BY BoundAssumption DEF Frame, TypeOK, Hashes
  <1>2. CASE UNCHANGED <<data, writes>>
    BY <1>1, <1>2
  <1>3. ASSUME NEW n, writes' = writes + 1, data' = [data EXCEPT ![writes + 1] = n]
        PROVE  /\ writes' \in Nat /\ writes <= writes'
               /\ \A h \in 1 .. writes : data'[h] = data[h]
    <2>1. writes' \in Nat /\ writes <= writes'
      BY <1>1, <1>3
    <2>2. \A h \in 1 .. writes : h \in Hashes /\ h # writes + 1
      BY <1>1
    <2> QED
      BY <1>1, <1>3, <2>1, <2>2
  <1>4. CASE UNCHANGED signinVars
    BY <1>2, <1>4 DEF signinVars
  <1>5. CASE AskNext
    BY <1>2, <1>5 DEF AskNext, AskSignin, AskReset
  <1>6. CASE \E a \in Attempts : GiveUp(a) \/ Finish(a) \/ Begin(a)
    BY <1>2, <1>6 DEF GiveUp, Finish, Begin
  <1>7. CASE \E a \in Attempts : Download(a)
    BY <1>1, <1>2, <1>3, <1>7 DEF Download
  <1>8. CASE \E w \in Workers : Check(w) \/ Store(w) \/ Save(w)
    BY <1>2, <1>8 DEF Check, Store, Save
  <1>9. CASE BeginUpload \/ Accept \/ Select \/ SelectSlowly \/ SaveSelected \/ Restart
    BY <1>2, <1>9 DEF BeginUpload, Accept, Select, SelectSlowly, SaveSelected, Restart
  <1>10. CASE Recover \/ Retry \/ StopWaiting \/ PostAnswer \/ Deliver \/ Repull \/ PullDone
    BY <1>2, <1>10 DEF Recover, Retry, StopWaiting, PostAnswer, Deliver, Repull, PullDone
  <1>11. CASE GameEdit
    BY <1>1, <1>3, <1>11 DEF GameEdit
  <1> QED
    BY <1>4, <1>5, <1>6, <1>7, <1>8, <1>9, <1>10, <1>11 DEF SigninNext, WorkerNext

LEMMA AskedKept ==
    ASSUME Frame, [SigninNext]_signinVars, NEW x \in Attempts, job[x].stage = "running"
    PROVE  job'[x].kind = job[x].kind /\ job'[x].user = job[x].user /\ job'[x].keep = job[x].keep
  <1> USE DEF fileVars, portalVars, syncVars, historyVars
  <1>1. job \in [Attempts -> Messages] /\ job[x] \in Messages
    BY DEF Frame, TypeOK
  <1>2. CASE UNCHANGED job
    BY <1>2
  <1>3. ASSUME NEW a \in Attempts, NEW b \in BOOLEAN, Answered(a, b)
        PROVE  job'[x].kind = job[x].kind /\ job'[x].user = job[x].user
               /\ job'[x].keep = job[x].keep
    BY <1>1, <1>3 DEF Answered, Messages
  <1>4. ASSUME NEW w \in Workers, Fails(w)
        PROVE  job'[x].kind = job[x].kind /\ job'[x].user = job[x].user
               /\ job'[x].keep = job[x].keep
    BY <1>2, <1>3, <1>4 DEF Fails
  <1>5. CASE UNCHANGED signinVars
    BY <1>2, <1>5 DEF signinVars
  <1>6. CASE AskNext
    <2>1. PICK a \in Attempts : job[a].stage = "new" /\ \E j : job' = [job EXCEPT ![a] = j]
      BY <1>6 DEF AskNext, AskSignin, AskReset
    <2> QED
      BY <1>1, <2>1
  <1>7. CASE \E a \in Attempts : Finish(a)
    <2>1. PICK a \in Attempts : job[a].stage = "answered" /\ \E j : job' = [job EXCEPT ![a] = j]
      BY <1>7 DEF Finish
    <2> QED
      BY <1>1, <2>1
  <1>8. CASE \E a \in Attempts : GiveUp(a) \/ Begin(a)
    BY <1>1, <1>8 DEF GiveUp, Begin, Messages
  <1>9. CASE \E a \in Attempts : Download(a)
    BY <1>2, <1>3, <1>9 DEF Download
  <1>10. CASE \E w \in Workers : Check(w) \/ Store(w)
    BY <1>2, <1>4, <1>10 DEF Check, Store
  <1>11. CASE \E w \in Workers : Save(w)
    BY <1>2, <1>3, <1>4, <1>11 DEF Save
  <1>12. CASE BeginUpload \/ Accept \/ Select \/ SelectSlowly \/ SaveSelected \/ GameEdit
    BY <1>2, <1>12 DEF BeginUpload, Accept, Select, SelectSlowly, SaveSelected, GameEdit
  <1>13. CASE Recover \/ Retry \/ StopWaiting \/ PostAnswer \/ Deliver \/ Repull \/ PullDone
    BY <1>2, <1>13 DEF Recover, Retry, StopWaiting, PostAnswer, Deliver, Repull, PullDone
  <1>14. CASE Restart
    BY <1>1, <1>14 DEF Restart, Messages
  <1> QED
    BY <1>5, <1>6, <1>7, <1>8, <1>9, <1>10, <1>11, <1>12, <1>13, <1>14
       DEF SigninNext, WorkerNext

-----------------------------------------------------------------------------
(* What the second reading of the file has seen is kept.                   *)

LEMMA SeenKept ==
    ASSUME Frame, SeenEditsKept, [SigninNext]_signinVars, UNCHANGED file,
           \A w \in Workers : worker'[w].step = "store"
               => worker[w].step = "store" /\ worker'[w].read = worker[w].read
                  /\ worker'[w].late = worker[w].late
    PROVE  SeenEditsKept'
  <1>1. file \in 1 .. writes
    BY DEF Frame, TypeOK
  <1>2. \A w \in Workers : worker[w].step = "store" => worker[w].read \in 1 .. writes
    BY DEF Frame, TypeOK
  <1>3. data'[file] = data[file]
    BY <1>1, DataKept
  <1>4. \A w \in Workers : worker[w].step = "store"
            => data'[worker[w].read] = data[worker[w].read]
    BY <1>2, DataKept
  <1> QED
    BY <1>3, <1>4 DEF SeenEditsKept

LEMMA NobodySeen ==
    ASSUME \A w \in Workers : worker'[w].step # "store"
    PROVE  SeenEditsKept'
  BY DEF SeenEditsKept

LEMMA CheckSeen ==
    ASSUME Frame, SeenEditsKept, NEW w \in Workers, Check(w)
    PROVE  SeenEditsKept'
  <1> USE DEF fileVars, historyVars
  <1>1. /\ worker \in [Workers -> Threads] /\ worker[w] \in Threads /\ lock = w
        /\ UNCHANGED <<file, data>>
    BY DEF Check, Frame, TypeOK, LockInv
  <1>2. CASE file = worker[w].read /\ worker' = [worker EXCEPT ![w].step = "store"]
    <2>1. \A v \in Workers : v # w => worker'[v].step = "none"
      BY <1>1, <1>2 DEF Frame, LockInv
    <2>2. worker'[w].read = file /\ worker'[w].late \in Nat
      BY <1>1, <1>2 DEF Threads
    <2>3. data[file].edits \in Nat
      BY BoundAssumption DEF Frame, TypeOK, Hashes, Contents
    <2>4. data'[worker'[w].read].edits + worker'[w].late >= data'[file'].edits
      BY <1>1, <2>2, <2>3
    <2> QED
      BY <2>1, <2>4 DEF SeenEditsKept
  <1>3. CASE worker' = [worker EXCEPT ![w].step = "download", ![w].again = TRUE]
    <2>1. \A v \in Workers : worker'[v].step # "store"
      BY <1>1, <1>3 DEF Frame, LockInv, Threads
    <2> QED
      BY <2>1, NobodySeen
  <1>4. CASE Fails(w)
    <2>1. \A v \in Workers : worker'[v].step # "store"
      BY <1>1, <1>4, ReleaseThreads DEF Fails
    <2> QED
      BY <2>1, NobodySeen
  <1> QED
    BY <1>2, <1>3, <1>4 DEF Check

LEMMA StoreSeen ==
    ASSUME Frame, NEW w \in Workers, Store(w) \/ Save(w)
    PROVE  SeenEditsKept'
  <1>1. worker \in [Workers -> Threads] /\ worker[w] \in Threads /\ lock = w
    BY DEF Store, Save, Frame, TypeOK, LockInv
  <1>2. CASE worker' = [worker EXCEPT ![w].step = "save"]
    <2>1. \A v \in Workers : worker'[v].step # "store"
      BY <1>1, <1>2 DEF Frame, LockInv, Threads
    <2> QED
      BY <2>1, NobodySeen
  <1>3. CASE Release(w)
    <2>1. \A v \in Workers : worker'[v].step # "store"
      BY <1>1, <1>3, ReleaseThreads
    <2> QED
      BY <2>1, NobodySeen
  <1> QED
    BY <1>2, <1>3 DEF Store, Save, Fails

LEMMA GameEditSeen ==
    ASSUME Frame, SeenEditsKept, GameEdit
    PROVE  SeenEditsKept'
  <1>1. /\ file \in 1 .. writes /\ writes + 1 \in Hashes /\ writes + 1 \notin 1 .. writes
        /\ data \in [Hashes -> Contents] /\ file' = writes + 1
        /\ data[file] \in Contents
    BY BoundAssumption DEF GameEdit, Frame, TypeOK, Hashes
  <1>2. data' = [data EXCEPT ![writes + 1] = [data[file] EXCEPT !.edits = data[file].edits + 1]]
    BY DEF GameEdit
  <1>3. data'[file'] = [data[file] EXCEPT !.edits = data[file].edits + 1]
    BY <1>1, <1>2
  <1>4. data'[file'].edits = data[file].edits + 1
    BY <1>1, <1>3 DEF Contents
  <1>5. ASSUME NEW w \in Workers, worker'[w].step = "store"
        PROVE  data'[worker'[w].read].edits + worker'[w].late >= data'[file'].edits
    <2>1. /\ worker[w].step = "store" /\ worker'[w].read = worker[w].read
          /\ worker'[w].late = worker[w].late + 1
      BY <1>5, GameEditThreads
    <2>2. worker[w].read \in 1 .. writes /\ worker[w].read \in Hashes
      BY <2>1, BoundAssumption DEF Frame, TypeOK, Hashes
    <2>3. data'[worker[w].read] = data[worker[w].read]
      BY <1>1, <1>2, <2>2
    <2>4. data[worker[w].read].edits + worker[w].late >= data[file].edits
      BY <2>1 DEF SeenEditsKept
    <2>5. data[worker[w].read].edits \in Nat /\ worker[w].late \in Nat /\ data[file].edits \in Nat
      BY <1>1, <2>2 DEF Contents, Threads, Frame, TypeOK
    <2> QED
      BY <1>4, <2>1, <2>3, <2>4, <2>5
  <1> QED
    BY <1>5 DEF SeenEditsKept

LEMMA NextSeen ==
    ASSUME Frame, SeenEditsKept, [SigninNext]_signinVars
    PROVE  SeenEditsKept'
  <1> USE DEF fileVars, portalVars, syncVars, historyVars
  <1>1. CASE UNCHANGED <<file, worker>>
    BY <1>1, SeenKept
  <1>2. CASE UNCHANGED signinVars
    BY <1>1, <1>2 DEF signinVars
  <1>3. CASE AskNext
    BY <1>1, <1>3 DEF AskNext, AskSignin, AskReset
  <1>4. CASE \E a \in Attempts : GiveUp(a) \/ Finish(a)
    BY <1>1, <1>4 DEF GiveUp, Finish
  <1>5. CASE \E a \in Attempts : Begin(a)
    <2>1. PICK a \in Attempts : Begin(a)
      BY <1>5
    <2>2. \A w \in Workers : worker'[w].step = "store" => worker'[w] = worker[w]
      BY <2>1 DEF Begin, Idle, Frame, TypeOK
    <2> QED
      BY <2>1, <2>2, SeenKept DEF Begin
  <1>6. CASE \E a \in Attempts : Download(a)
    <2>1. PICK a \in Attempts : Download(a)
      BY <1>6
    <2>2. worker \in [Workers -> Threads] /\ lock = a /\ UNCHANGED file /\ a \in Workers
      BY <2>1 DEF Download, Frame, TypeOK, LockInv
    <2>3. CASE Release(a)
      <3>1. \A v \in Workers : worker'[v].step # "store"
        BY <2>2, <2>3, ReleaseThreads
      <3> QED
        BY <3>1, NobodySeen
    <2>4. CASE worker' = [worker EXCEPT ![a].step = "check", ![a].read = file,
                                         ![a].next = writes + 1]
      <3>1. \A v \in Workers : worker'[v].step # "store"
        BY <2>2, <2>4 DEF Frame, LockInv, Threads
      <3> QED
        BY <3>1, NobodySeen
    <2> QED
      BY <2>1, <2>3, <2>4 DEF Download
  <1>7. CASE \E w \in Workers : Check(w) \/ Store(w) \/ Save(w)
    BY <1>7, CheckSeen, StoreSeen
  <1>8. CASE BeginUpload
    <2>1. \A w \in Workers : worker'[w].step = "store" => worker'[w] = worker[w]
      BY <1>8 DEF BeginUpload, Idle, Frame, TypeOK
    <2> QED
      BY <1>8, <2>1, SeenKept DEF BeginUpload
  <1>9. CASE Accept \/ Select \/ SelectSlowly \/ SaveSelected \/ Restart
    BY <1>1, <1>9 DEF Accept, Select, SelectSlowly, SaveSelected, Restart
  <1>10. CASE Recover \/ Retry \/ StopWaiting \/ PostAnswer \/ Deliver \/ Repull \/ PullDone
    BY <1>1, <1>10 DEF Recover, Retry, StopWaiting, PostAnswer, Deliver, Repull, PullDone
  <1>11. CASE GameEdit
    BY <1>11, GameEditSeen
  <1> QED
    BY <1>2, <1>3, <1>4, <1>5, <1>6, <1>7, <1>8, <1>9, <1>10, <1>11
       DEF SigninNext, WorkerNext

\* No transaction overwrites a change of the game that its second reading of
\* the file could see.
THEOREM SeenEditsAlwaysKept == SigninSpec => []SeenEditsKept
  <1>1. Init => SeenEditsKept
    BY DEF Init, SeenEditsKept, Idle
  <1> QED
    BY <1>1, NextSeen, SigninFrame, PTL DEF SigninSpec

-----------------------------------------------------------------------------
(* A revision names one file: only the snapshot moves, and it moves up.    *)

KnownInv ==
    \A x \in Known \union {Nothing} :
        /\ x.revision <= snapshot.revision
        /\ \A y \in Known \union {Nothing} : x.revision = y.revision => x.hash = y.hash

LEMMA KnownTypes ==
    ASSUME Frame
    PROVE  Known \union {Nothing} \subseteq Descriptors
  BY FrameTypes DEF Known, Posts

LEMMA KnownStep ==
    ASSUME Frame, KnownInv, Known' \subseteq Known \union {Nothing, snapshot'},
           snapshot' = snapshot \/ snapshot'.revision = snapshot.revision + 1
    PROVE  KnownInv'
  <1> DEFINE K == Known \union {Nothing}
  <1>1. \A x \in K : x.revision \in Nat
    BY KnownTypes DEF Descriptors
  <1>2. snapshot \in K /\ snapshot.revision \in Nat
    BY <1>1 DEF Known
  <1>3. \A x \in K : /\ x.revision <= snapshot.revision
                     /\ \A y \in K : x.revision = y.revision => x.hash = y.hash
    BY DEF KnownInv
  <1>4. Known' \union {Nothing} \subseteq K \union {snapshot'}
    OBVIOUS
  <1> HIDE DEF K
  <1>5. CASE snapshot' = snapshot
    <2>1. Known' \union {Nothing} \subseteq K
      BY <1>2, <1>4, <1>5
    <2> QED
      BY <1>3, <1>5, <2>1 DEF KnownInv, Nothing
  <1>6. CASE snapshot'.revision = snapshot.revision + 1
    <2>1. ASSUME NEW x \in K \union {snapshot'}, NEW y \in K \union {snapshot'}
          PROVE  /\ x.revision <= snapshot'.revision
                 /\ x.revision = y.revision => x.hash = y.hash
      <3>1. \A z \in K : z.revision < snapshot'.revision
        BY <1>1, <1>2, <1>3, <1>6
      <3>2. CASE x \in K
        BY <1>1, <1>2, <1>3, <1>6, <3>1, <3>2
      <3>3. CASE x = snapshot'
        BY <1>1, <1>2, <1>6, <3>1, <3>3
      <3> QED
        BY <3>2, <3>3
    <2> QED
      BY <1>4, <2>1 DEF KnownInv, Nothing
  <1> QED
    BY <1>5, <1>6

LEMMA SavedAsMoves ==
    ASSUME NEW h
    PROVE  SavedAs(h) = snapshot \/ SavedAs(h).revision = snapshot.revision + 1
  BY DEF SavedAs

LEMMA PostSame ==
    ASSUME Frame, NEW stage \in STRING
    PROVE  /\ [post EXCEPT !.stage = stage].of = post.of
           /\ [post EXCEPT !.stage = stage].new = post.new
           /\ \A d : [post EXCEPT !.stage = stage, !.new = d].of = post.of
           /\ \A d : [post EXCEPT !.stage = stage, !.new = d].new = d
  <1>1. post \in Posts
    BY FrameTypes
  <1> QED
    BY <1>1 DEF Posts

LEMMA FailsKnown ==
    ASSUME Frame, NEW w \in Workers, Fails(w)
    PROVE  post'.of = post.of /\ post'.new = post.new
  <1>1. CASE post' = [post EXCEPT !.stage = "failed"]
    BY <1>1, PostSame
  <1>2. CASE UNCHANGED post
    BY <1>2
  <1> QED
    BY <1>1, <1>2 DEF Fails

LEMMA NextKnown ==
    ASSUME Frame, KnownInv, [SigninNext]_signinVars
    PROVE  KnownInv'
  <1> USE DEF fileVars, portalVars, syncVars, historyVars, Known
  <1> DEFINE K == Known \union {Nothing, snapshot'}
             Same == UNCHANGED <<snapshot, published, held, pull, pending>>
                     /\ post'.of = post.of /\ post'.new = post.new
  <1>1. CASE Same
    BY <1>1, KnownStep
  <1>2. CASE UNCHANGED signinVars
    BY <1>1, <1>2 DEF signinVars
  <1>3. CASE AskNext
    BY <1>1, <1>3 DEF AskNext, AskSignin, AskReset
  <1>4. CASE \E a \in Attempts : GiveUp(a) \/ Finish(a) \/ Begin(a) \/ Download(a)
    BY <1>1, <1>4 DEF GiveUp, Finish, Begin, Download
  <1>5. CASE \E w \in Workers : Check(w) \/ Store(w)
    BY <1>1, <1>5, FailsKnown DEF Check, Store
  <1>6. CASE \E w \in Workers : Save(w)
    <2>1. PICK w \in Workers : Save(w)
      BY <1>6
    <2>2. UNCHANGED <<held, pull, pending>>
      BY <2>1 DEF Save
    <2>3. CASE Fails(w) /\ UNCHANGED <<snapshot, published>>
      BY <1>1, <2>2, <2>3, FailsKnown
    <2>4. CASE /\ snapshot' = SavedAs(worker[w].next)
               /\ published' = SavedAs(worker[w].next) \/ UNCHANGED published
               /\ UNCHANGED post
      BY <2>2, <2>4, SavedAsMoves, KnownStep
    <2>5. CASE /\ snapshot' = SavedAs(worker[w].next) /\ published' = SavedAs(worker[w].next)
               /\ post' = [post EXCEPT !.stage = "done", !.new = SavedAs(worker[w].next)]
      <3>1. post'.of = post.of /\ post'.new = snapshot'
        BY <2>5, PostSame
      <3> QED
        BY <2>2, <2>5, <3>1, SavedAsMoves, KnownStep
    <2> QED
      BY <2>1, <2>3, <2>4, <2>5 DEF Save
  <1>7. CASE Accept
    BY <1>1, <1>7, PostSame DEF Accept
  <1>8. CASE BeginUpload \/ SelectSlowly \/ GameEdit
    BY <1>1, <1>8 DEF BeginUpload, SelectSlowly, GameEdit
  <1>9. CASE Select
    BY <1>9, SavedAsMoves, KnownStep DEF Select
  <1>10. CASE SaveSelected
    <2>1. CASE UNCHANGED <<snapshot, published>>
      BY <1>1, <1>10, <2>1 DEF SaveSelected
    <2>2. CASE snapshot' = SavedAs(selected) /\ published' = SavedAs(selected)
      BY <1>10, <2>2, SavedAsMoves, KnownStep DEF SaveSelected
    <2> QED
      BY <1>10, <2>1, <2>2 DEF SaveSelected
  <1>11. CASE Recover
    BY <1>11, KnownStep DEF Recover
  <1>12. CASE Retry
    <2>1. post'.of = pending /\ post'.new = Nothing
      BY <1>12 DEF Retry, NoPost
    <2> QED
      BY <1>12, <2>1, KnownStep DEF Retry
  <1>13. CASE StopWaiting \/ Restart
    <2>1. post' = [post EXCEPT !.waits = FALSE]
      BY <1>13 DEF StopWaiting, Restart
    <2>2. post'.of = post.of /\ post'.new = post.new
      BY <2>1, FrameTypes DEF Posts
    <2> QED
      BY <1>13, <2>2, KnownStep DEF StopWaiting, Restart
  <1>14. CASE PostAnswer
    <2>1. post'.of = Nothing /\ post'.new = Nothing
      BY <1>14 DEF PostAnswer, NoPost
    <2>2. UNCHANGED <<snapshot, published, pull>> /\ pending' \in {Nothing, pending}
          /\ held' \in {post.new, held}
      BY <1>14 DEF PostAnswer
    <2> QED
      BY <2>1, <2>2, KnownStep
  <1>15. CASE Deliver \/ Repull
    BY <1>15, KnownStep DEF Deliver, Repull
  <1>16. CASE PullDone
    BY <1>16, KnownStep DEF PullDone
  <1> QED
    BY <1>2, <1>3, <1>4, <1>5, <1>6, <1>7, <1>8, <1>9, <1>10, <1>11, <1>12, <1>13, <1>14,
       <1>15, <1>16 DEF SigninNext, WorkerNext

\* Two that know the database by the same revision know the same file.
THEOREM RevisionsNameOneFile == SigninSpec => []OneHashPerRevision
  <1>1. Init => KnownInv
    BY DEF Init, KnownInv, Known, NoPost, Nothing, First
  <1>2. KnownInv => OneHashPerRevision
    BY DEF KnownInv, OneHashPerRevision
  <1> QED
    BY <1>1, <1>2, NextKnown, SigninFrame, PTL DEF SigninSpec

-----------------------------------------------------------------------------
(* What a transaction has made of the file it read.                        *)

Made(kind, c, n, r, keep) ==
    /\ kind = "sign" => n = Signed(c, r) /\ r \notin c.rows
    /\ kind = "reset" => n = Reset(c, r, keep) /\ r \in c.rows

DerivedInv == \A a \in Attempts : worker[a].step \in {"check", "store"} =>
    Made(job[a].kind, data[worker[a].read], data[worker[a].next], job[a].user, job[a].keep)

\* The game changes no row between the comparison and the replacement.
RowsInv == \A w \in Workers : worker[w].step = "store"
               => data[worker[w].read].rows = data[file].rows

\* Threads that go on as they were, or leave these steps.
LEMMA DerivedKept ==
    ASSUME Frame, DerivedInv, [SigninNext]_signinVars, NEW a \in Attempts,
           worker'[a].step \in {"check", "store"},
           worker[a].step \in {"check", "store"}, worker'[a].read = worker[a].read,
           worker'[a].next = worker[a].next
    PROVE  Made(job[a].kind, data[worker[a].read], data[worker[a].next], job[a].user,
                job[a].keep)'
  <1>1. a \in Workers /\ lock = a
    BY DEF Frame, LockInv
  <1>2. job[a].stage = "running"
    BY <1>1 DEF Frame, JobInv
  <1>3. worker[a].read \in 1 .. writes /\ worker[a].next \in 1 .. writes
    BY <1>1 DEF Frame, TypeOK
  <1>4. data'[worker[a].read] = data[worker[a].read] /\ data'[worker[a].next] = data[worker[a].next]
    BY <1>3, DataKept
  <1>5. job'[a].kind = job[a].kind /\ job'[a].user = job[a].user /\ job'[a].keep = job[a].keep
    BY <1>2, AskedKept
  <1> QED
    BY <1>4, <1>5 DEF DerivedInv, Made, Signed, Reset

LEMMA NobodyDerived ==
    ASSUME \A a \in Attempts : worker'[a].step \notin {"check", "store"}
    PROVE  DerivedInv'
  BY DEF DerivedInv

LEMMA DownloadDerived ==
    ASSUME Frame, NEW a \in Attempts, Download(a)
    PROVE  DerivedInv'
  <1>1. worker \in [Workers -> Threads] /\ lock = a /\ a \in Workers
    BY DEF Download, Frame, TypeOK, LockInv
  <1>2. CASE Release(a)
    <2>1. \A v \in Workers : worker'[v].step = "none"
      BY <1>1, <1>2, ReleaseThreads
    <2> QED
      BY <2>1, NobodyDerived
  <1>3. CASE /\ Allowed(job[a].kind, data[file], job[a].user, job[a].keep)
             /\ writes < MaxWrites
             /\ data' = [data EXCEPT ![writes + 1] =
                           IF job[a].kind = "sign" THEN Signed(data[file], job[a].user)
                           ELSE Reset(data[file], job[a].user, job[a].keep)]
             /\ worker' = [worker EXCEPT ![a].step = "check", ![a].read = file,
                                         ![a].next = writes + 1]
             /\ UNCHANGED job
    <2>1. file \in Hashes /\ writes + 1 \in Hashes /\ file # writes + 1
          /\ data \in [Hashes -> Contents]
      BY <1>3, BoundAssumption DEF Frame, TypeOK, Hashes
    <2>2. /\ worker'[a].read = file /\ worker'[a].next = writes + 1
          /\ \A v \in Workers : v # a => worker'[v].step = "none"
      BY <1>1, <1>3 DEF Frame, LockInv, Threads
    <2>3. /\ data'[file] = data[file]
          /\ data'[writes + 1] = IF job[a].kind = "sign" THEN Signed(data[file], job[a].user)
                                 ELSE Reset(data[file], job[a].user, job[a].keep)
      BY <1>3, <2>1
    <2>4. Made(job[a].kind, data[worker[a].read], data[worker[a].next], job[a].user,
               job[a].keep)'
      <3>1. UNCHANGED job
        BY <1>3
      <3>2. job[a].kind = "sign" => job[a].user \notin data[file].rows
        BY <1>3 DEF Allowed
      <3>3. job[a].kind = "reset" => job[a].user \in data[file].rows
        BY <1>3 DEF Allowed
      <3> QED
        BY <2>2, <2>3, <3>1, <3>2, <3>3 DEF Made, Signed, Reset
    <2> QED
      BY <2>2, <2>4 DEF DerivedInv
  <1> QED
    BY <1>2, <1>3 DEF Download

LEMMA NextDerived ==
    ASSUME Frame, DerivedInv, [SigninNext]_signinVars
    PROVE  DerivedInv'
  <1> USE DEF fileVars, portalVars, syncVars, historyVars
  <1> DEFINE Goes == \A a \in Attempts : worker'[a].step \in {"check", "store"}
                        => /\ worker[a].step \in {"check", "store"}
                           /\ worker'[a].read = worker[a].read /\ worker'[a].next = worker[a].next
  <1>1. CASE Goes
    BY <1>1, DerivedKept DEF DerivedInv
  <1>2. worker \in [Workers -> Threads]
    BY DEF Frame, TypeOK
  <1>3. CASE UNCHANGED worker
    BY <1>1, <1>3
  <1>4. CASE UNCHANGED signinVars
    BY <1>3, <1>4 DEF signinVars
  <1>5. CASE AskNext
    BY <1>3, <1>5 DEF AskNext, AskSignin, AskReset
  <1>6. CASE \E a \in Attempts : GiveUp(a) \/ Finish(a)
    BY <1>3, <1>6 DEF GiveUp, Finish
  <1>7. CASE \E a \in Attempts : Begin(a)
    BY <1>1, <1>2, <1>7 DEF Begin, Idle
  <1>8. CASE \E a \in Attempts : Download(a)
    BY <1>8, DownloadDerived
  <1>9. CASE \E w \in Workers : Check(w) \/ Store(w) \/ Save(w)
    <2>1. PICK w \in Workers : Check(w) \/ Store(w) \/ Save(w)
      BY <1>9
    <2>2. lock = w /\ worker[w] \in Threads
      BY <1>2, <2>1 DEF Check, Store, Save, Frame, LockInv
    <2>3. CASE Release(w)
      <3>1. \A v \in Workers : worker'[v].step = "none"
        BY <2>2, <2>3, ReleaseThreads
      <3> QED
        BY <3>1, NobodyDerived
    <2>4. CASE Check(w) /\ worker' = [worker EXCEPT ![w].step = "store"]
      <3>1. worker[w].step = "check"
        BY <2>4 DEF Check
      <3>2. Goes
        BY <1>2, <2>2, <2>4, <3>1 DEF Threads
      <3> QED
        BY <1>1, <3>2
    <2>5. CASE \/ worker' = [worker EXCEPT ![w].step = "download", ![w].again = TRUE]
               \/ worker' = [worker EXCEPT ![w].step = "save"]
      <3>1. Goes
        BY <1>2, <2>2, <2>5 DEF Threads
      <3> QED
        BY <1>1, <3>1
    <2>6. Fails(w) => Release(w)
      BY DEF Fails
    <2> QED
      BY <2>1, <2>3, <2>4, <2>5, <2>6 DEF Check, Store, Save
  <1>10. CASE BeginUpload
    <2>1. \A a \in Attempts : a # Upload
      BY BoundAssumption
    <2>2. \A a \in Attempts : worker'[a] = worker[a]
      BY <1>2, <1>10, <2>1 DEF BeginUpload
    <2> QED
      BY <1>1, <2>2
  <1>11. CASE Accept \/ Select \/ SelectSlowly \/ SaveSelected \/ Restart
    BY <1>3, <1>11 DEF Accept, Select, SelectSlowly, SaveSelected, Restart
  <1>12. CASE Recover \/ Retry \/ StopWaiting \/ PostAnswer \/ Deliver \/ Repull \/ PullDone
    BY <1>3, <1>12 DEF Recover, Retry, StopWaiting, PostAnswer, Deliver, Repull, PullDone
  <1>13. CASE GameEdit
    BY <1>1, <1>13, GameEditThreads
  <1> QED
    BY <1>4, <1>5, <1>6, <1>7, <1>8, <1>9, <1>10, <1>11, <1>12, <1>13
       DEF SigninNext, WorkerNext

-----------------------------------------------------------------------------
(* Rows between the comparison and the replacement.                        *)

LEMMA GameEditRows ==
    ASSUME Frame, GameEdit
    PROVE  data'[file'].rows = data[file].rows /\ data'[file'].credits = data[file].credits
  <1>1. /\ file \in 1 .. writes /\ writes + 1 \in Hashes /\ data \in [Hashes -> Contents]
        /\ file' = writes + 1 /\ data[file] \in Contents
    BY BoundAssumption DEF GameEdit, Frame, TypeOK, Hashes
  <1>2. data' = [data EXCEPT ![writes + 1] = [data[file] EXCEPT !.edits = data[file].edits + 1]]
    BY DEF GameEdit
  <1>3. data'[file'] = [data[file] EXCEPT !.edits = data[file].edits + 1]
    BY <1>1, <1>2
  <1> QED
    BY <1>1, <1>3 DEF Contents

\* The file is the same, or the game has written it, or a thread has.
LEMMA FileMoves ==
    ASSUME Frame, [SigninNext]_signinVars
    PROVE  \/ UNCHANGED file
           \/ GameEdit
           \/ \E w \in Workers : Store(w) /\ InPlace(w)
  <1> USE DEF fileVars, portalVars, syncVars, historyVars
  <1>1. CASE UNCHANGED signinVars
    BY <1>1 DEF signinVars
  <1>2. CASE AskNext
    BY <1>2 DEF AskNext, AskSignin, AskReset
  <1>3. CASE \E a \in Attempts : GiveUp(a) \/ Finish(a) \/ Begin(a) \/ Download(a)
    BY <1>3 DEF GiveUp, Finish, Begin, Download
  <1>4. CASE \E w \in Workers : Check(w) \/ Save(w)
    BY <1>4 DEF Check, Save
  <1>5. CASE \E w \in Workers : Store(w)
    BY <1>5 DEF Store
  <1>6. CASE BeginUpload \/ Accept \/ Select \/ SelectSlowly \/ SaveSelected \/ Restart
    BY <1>6 DEF BeginUpload, Accept, Select, SelectSlowly, SaveSelected, Restart
  <1>7. CASE Recover \/ Retry \/ StopWaiting \/ PostAnswer \/ Deliver \/ Repull \/ PullDone
    BY <1>7 DEF Recover, Retry, StopWaiting, PostAnswer, Deliver, Repull, PullDone
  <1> QED
    BY <1>1, <1>2, <1>3, <1>4, <1>5, <1>6, <1>7 DEF SigninNext, WorkerNext

LEMMA RowsKept ==
    ASSUME Frame, RowsInv, [SigninNext]_signinVars,
           UNCHANGED file \/ GameEdit,
           \A w \in Workers : worker'[w].step = "store"
               => worker[w].step = "store" /\ worker'[w].read = worker[w].read
    PROVE  RowsInv'
  <1>1. file \in 1 .. writes
    BY DEF Frame, TypeOK
  <1>2. data'[file'].rows = data[file].rows
    BY <1>1, DataKept, GameEditRows
  <1>3. \A w \in Workers : worker[w].step = "store" => worker[w].read \in 1 .. writes
    BY DEF Frame, TypeOK
  <1>4. \A w \in Workers : worker[w].step = "store"
            => data'[worker[w].read] = data[worker[w].read]
    BY <1>3, DataKept
  <1> QED
    BY <1>2, <1>4 DEF RowsInv

LEMMA NextRows ==
    ASSUME Frame, RowsInv, [SigninNext]_signinVars
    PROVE  RowsInv'
  <1> USE DEF fileVars, portalVars, syncVars, historyVars
  <1>1. worker \in [Workers -> Threads]
    BY DEF Frame, TypeOK
  <1>2. ASSUME \A w \in Workers : worker'[w].step # "store"
        PROVE  RowsInv'
    BY <1>2 DEF RowsInv
  <1>3. CASE UNCHANGED <<file, worker>>
    BY <1>3, RowsKept
  <1>4. CASE UNCHANGED signinVars
    BY <1>3, <1>4 DEF signinVars
  <1>5. CASE AskNext
    BY <1>3, <1>5 DEF AskNext, AskSignin, AskReset
  <1>6. CASE \E a \in Attempts : GiveUp(a) \/ Finish(a)
    BY <1>3, <1>6 DEF GiveUp, Finish
  <1>7. CASE \E a \in Attempts : Begin(a)
    <2>1. \A w \in Workers : worker'[w].step = "store" => worker'[w] = worker[w]
      BY <1>1, <1>7 DEF Begin, Idle
    <2> QED
      BY <1>7, <2>1, RowsKept DEF Begin
  <1>8. CASE \E a \in Attempts : Download(a)
    <2>1. PICK a \in Attempts : Download(a)
      BY <1>8
    <2>2. lock = a /\ a \in Workers
      BY <2>1 DEF Download, Frame, LockInv
    <2>3. CASE Release(a)
      BY <1>2, <2>2, <2>3, ReleaseThreads
    <2>4. CASE worker' = [worker EXCEPT ![a].step = "check", ![a].read = file,
                                         ![a].next = writes + 1]
      BY <1>1, <1>2, <2>2, <2>4 DEF Frame, LockInv, Threads
    <2> QED
      BY <2>1, <2>3, <2>4 DEF Download
  <1>9. CASE \E w \in Workers : Check(w)
    <2>1. PICK w \in Workers : Check(w)
      BY <1>9
    <2>2. lock = w /\ worker[w] \in Threads /\ UNCHANGED <<file, data>>
      BY <1>1, <2>1 DEF Check, Frame, LockInv
    <2>3. CASE Fails(w)
      BY <1>2, <2>2, <2>3, ReleaseThreads DEF Fails
    <2>4. CASE worker' = [worker EXCEPT ![w].step = "download", ![w].again = TRUE]
      BY <1>1, <1>2, <2>2, <2>4 DEF Frame, LockInv, Threads
    <2>5. CASE file = worker[w].read /\ worker' = [worker EXCEPT ![w].step = "store"]
      <3>1. worker'[w].read = file /\ \A v \in Workers : v # w => worker'[v].step = "none"
        BY <1>1, <2>2, <2>5 DEF Frame, LockInv, Threads
      <3> QED
        BY <2>2, <3>1 DEF RowsInv
    <2> QED
      BY <2>1, <2>3, <2>4, <2>5 DEF Check
  <1>10. CASE \E w \in Workers : Store(w) \/ Save(w)
    <2>1. PICK w \in Workers : Store(w) \/ Save(w)
      BY <1>10
    <2>2. lock = w /\ worker[w] \in Threads
      BY <1>1, <2>1 DEF Store, Save, Frame, LockInv
    <2>3. CASE Release(w)
      BY <1>2, <2>2, <2>3, ReleaseThreads
    <2>4. CASE worker' = [worker EXCEPT ![w].step = "save"]
      BY <1>1, <1>2, <2>2, <2>4 DEF Frame, LockInv, Threads
    <2> QED
      BY <2>1, <2>3, <2>4 DEF Store, Save, Fails
  <1>11. CASE BeginUpload
    <2>1. \A w \in Workers : worker'[w].step = "store" => worker'[w] = worker[w]
      BY <1>1, <1>11 DEF BeginUpload, Idle
    <2> QED
      BY <1>11, <2>1, RowsKept DEF BeginUpload
  <1>12. CASE Accept \/ Select \/ SelectSlowly \/ SaveSelected \/ Restart
    BY <1>3, <1>12 DEF Accept, Select, SelectSlowly, SaveSelected, Restart
  <1>13. CASE Recover \/ Retry \/ StopWaiting \/ PostAnswer \/ Deliver \/ Repull \/ PullDone
    BY <1>3, <1>13 DEF Recover, Retry, StopWaiting, PostAnswer, Deliver, Repull, PullDone
  <1>14. CASE GameEdit
    BY <1>14, GameEditThreads, RowsKept
  <1> QED
    BY <1>4, <1>5, <1>6, <1>7, <1>8, <1>9, <1>10, <1>11, <1>12, <1>13, <1>14
       DEF SigninNext, WorkerNext

LEMMA StoredRows ==
    ASSUME Frame, DerivedInv, RowsInv, NEW w \in Workers, Store(w), InPlace(w),
           NEW r \in data[file].rows \ data'[file'].rows
    PROVE  /\ worker[w].step = "store"
           /\ w = Upload \/ (KindOf(w) = "reset" /\ job[w].user = r)
  <1>1. worker[w].step = "store" /\ UNCHANGED data /\ file' = worker[w].next /\ lock = w
    BY DEF Store, InPlace, Frame, LockInv
  <1>2. CASE w # Upload
    <2>1. w \in Attempts /\ KindOf(w) = job[w].kind /\ job[w].kind \in {"sign", "reset"}
      BY <1>1, <1>2 DEF KindOf, Frame, JobInv
    <2>2. data[worker[w].read].rows = data[file].rows
      BY <1>1 DEF RowsInv
    <2>3. Made(job[w].kind, data[worker[w].read], data[worker[w].next], job[w].user, job[w].keep)
      BY <1>1, <2>1 DEF DerivedInv
    <2> QED
      BY <1>1, <2>1, <2>2, <2>3 DEF Made, Signed, Reset
  <1> QED
    BY <1>1, <1>2

\* Sign-ins leave the file only by their own reset or by an upload.
THEOREM RowsLeaveOnlyByReset == SigninSpec => RowsLeaveByReset
  <1>1. Init => DerivedInv /\ RowsInv
    BY DEF Init, DerivedInv, RowsInv, Idle
  <1>2. ASSUME Frame, DerivedInv, RowsInv, [SigninNext]_signinVars
        PROVE  [\A r \in data[file].rows \ data'[file'].rows : \E w \in Workers :
                    /\ worker[w].step = "store"
                    /\ w = Upload \/ (KindOf(w) = "reset" /\ job[w].user = r)]_signinVars
    <2>1. CASE UNCHANGED file
      <3>1. file \in 1 .. writes
        BY <1>2 DEF Frame, TypeOK
      <3>2. data'[file'] = data[file]
        BY <1>2, <2>1, <3>1, DataKept
      <3> QED
        BY <3>2
    <2>2. CASE GameEdit
      BY <1>2, <2>2, GameEditRows
    <2>3. CASE \E w \in Workers : Store(w) /\ InPlace(w)
      BY <1>2, <2>3, StoredRows
    <2> QED
      BY <1>2, <2>1, <2>2, <2>3, FileMoves
  <1> QED
    BY <1>1, <1>2, NextDerived, NextRows, SigninFrame, PTL DEF SigninSpec, RowsLeaveByReset

-----------------------------------------------------------------------------
(* One reward per day.  A file is within its bounds if a reward is there   *)
(* for the row of the day, and one for each reset that left it.            *)

Row(h, r) == IF r \in data[h].rows THEN 1 ELSE 0
Within(h) == \A r \in Users : data[h].credits[r] <= kept[r] + Row(h, r)

\* The files that may come back: on the server, retained, local, or on the way.
WithinInv ==
    /\ Within(file) /\ Within(copy) /\ Within(snapshot.hash)
    /\ selected # 0 => Within(selected)
    /\ post.stage \in {"sent", "locked"} => Within(post.body)
    /\ worker[Upload].step \in {"check", "store"} => Within(worker[Upload].next)
    /\ \A a \in Attempts : worker[a].step \in {"check", "store"} => Within(worker[a].read)
    /\ \A w \in Workers : worker[w].step = "save" => Within(worker[w].next)

LEMMA KeptGrows ==
    ASSUME Frame, [SigninNext]_signinVars
    PROVE  \A r \in Users : kept[r] \in Nat /\ kept'[r] \in Nat /\ kept[r] <= kept'[r]
  <1> USE DEF fileVars, portalVars, syncVars, historyVars
  <1>1. kept \in [Users -> Nat]
    BY DEF Frame, TypeOK
  <1>2. CASE UNCHANGED kept
    BY <1>1, <1>2
  <1>3. CASE \E w \in Workers : Store(w)
    BY <1>1, <1>3 DEF Store, InPlace
  <1>4. CASE UNCHANGED signinVars
    BY <1>2, <1>4 DEF signinVars
  <1>5. CASE AskNext
    BY <1>2, <1>5 DEF AskNext, AskSignin, AskReset
  <1>6. CASE \E a \in Attempts : GiveUp(a) \/ Finish(a) \/ Begin(a) \/ Download(a)
    BY <1>2, <1>6 DEF GiveUp, Finish, Begin, Download
  <1>7. CASE \E w \in Workers : Check(w) \/ Save(w)
    BY <1>2, <1>7 DEF Check, Save
  <1>8. CASE BeginUpload \/ Accept \/ Select \/ SelectSlowly \/ SaveSelected \/ Restart \/ GameEdit
    BY <1>2, <1>8 DEF BeginUpload, Accept, Select, SelectSlowly, SaveSelected, Restart, GameEdit
  <1>9. CASE Recover \/ Retry \/ StopWaiting \/ PostAnswer \/ Deliver \/ Repull \/ PullDone
    BY <1>2, <1>9 DEF Recover, Retry, StopWaiting, PostAnswer, Deliver, Repull, PullDone
  <1> QED
    BY <1>3, <1>4, <1>5, <1>6, <1>7, <1>8, <1>9 DEF SigninNext, WorkerNext

LEMMA WithinKept ==
    ASSUME Frame, [SigninNext]_signinVars, NEW h \in 1 .. writes, Within(h)
    PROVE  \A r \in Users : data'[h].credits[r]
                                <= kept'[r] + (IF r \in data'[h].rows THEN 1 ELSE 0)
  <1>1. data'[h] = data[h]
    BY DataKept
  <1>2. data[h] \in Contents
    BY BoundAssumption DEF Frame, TypeOK, Hashes
  <1>3. \A r \in Users : data[h].credits[r] \in Nat
    BY <1>2 DEF Contents
  <1> QED
    BY <1>1, <1>3, KeptGrows DEF Within, Row

\* What a transaction makes is within its bounds once it is counted.
LEMMA MadeWithin ==
    ASSUME Frame, DerivedInv, NEW a \in Attempts, worker[a].step = "store",
           Within(worker[a].read), InPlace(a), UNCHANGED data
    PROVE  \A r \in Users : data'[worker[a].next].credits[r]
                 <= kept'[r] + (IF r \in data'[worker[a].next].rows THEN 1 ELSE 0)
  <1> DEFINE c == data[worker[a].read]
             n == data[worker[a].next]
             u == job[a].user
  <1>1. /\ a \in Workers /\ lock = a /\ a # Upload /\ kept \in [Users -> Nat]
    BY BoundAssumption DEF Frame, LockInv, TypeOK
  <1>2. worker[a].read \in Hashes /\ c \in Contents
    BY <1>1, BoundAssumption DEF Frame, TypeOK, Hashes
  <1>3. job[a].kind \in {"sign", "reset"} /\ u \in Users /\ job[a].keep \in BOOLEAN
    BY <1>1 DEF Frame, JobInv, TypeOK, Messages
  <1>4. Made(job[a].kind, c, n, u, job[a].keep)
    BY DEF DerivedInv
  <1>5. \A r \in Users : c.credits[r] \in Nat
                         /\ c.credits[r] <= kept[r] + (IF r \in c.rows THEN 1 ELSE 0)
    BY <1>2 DEF Within, Row, Contents
  <1>6. KindOf(a) = job[a].kind
    BY <1>1 DEF KindOf
  <1>7. c.credits \in [Users -> Nat] /\ \A r \in Users : kept[r] \in Nat
    BY <1>1, <1>2 DEF Contents
  <1>8. CASE job[a].kind = "sign"
    <2>1. n.rows = c.rows \union {u} /\ n.credits = [c.credits EXCEPT ![u] = c.credits[u] + 1]
          /\ u \notin c.rows
      BY <1>4, <1>8 DEF Made, Signed
    <2>2. kept' = kept
      BY <1>6, <1>8 DEF InPlace
    <2> HIDE DEF c, n, u
    <2>3. \A r \in Users : n.credits[r] <= kept[r] + (IF r \in n.rows THEN 1 ELSE 0)
      BY <1>5, <1>7, <2>1
    <2> QED
      BY <2>2, <2>3 DEF n
  <1>9. CASE job[a].kind = "reset" /\ job[a].keep
    <2>1. n.rows = c.rows \ {u} /\ n.credits = c.credits
      BY <1>4, <1>9 DEF Made, Reset
    <2>2. kept' = [kept EXCEPT ![u] = kept[u] + 1]
      BY <1>6, <1>9 DEF InPlace
    <2> HIDE DEF c, n, u
    <2>3. \A r \in Users : n.credits[r] <= kept'[r] + (IF r \in n.rows THEN 1 ELSE 0)
      BY <1>1, <1>5, <1>7, <2>1, <2>2
    <2> QED
      BY <2>3 DEF n
  <1>10. CASE job[a].kind = "reset" /\ ~job[a].keep
    <2>1. n.rows = c.rows \ {u} /\ n.credits = [c.credits EXCEPT ![u] = c.credits[u] - 1]
          /\ u \in c.rows
      BY <1>4, <1>10 DEF Made, Reset
    <2>2. kept' = kept
      BY <1>6, <1>10 DEF InPlace
    <2> HIDE DEF c, n, u
    <2>3. \A r \in Users : n.credits[r] <= kept[r] + (IF r \in n.rows THEN 1 ELSE 0)
      BY <1>5, <1>7, <2>1
    <2> QED
      BY <2>2, <2>3 DEF n
  <1> QED
    BY <1>3, <1>8, <1>9, <1>10

\* A step that only moves files that are within their bounds already.
LEMMA WithinStep ==
    ASSUME Frame, WithinInv, [SigninNext]_signinVars,
           file' = file \/ Within(file)',
           copy' \in {copy, snapshot.hash},
           snapshot'.hash = snapshot.hash \/ Within(snapshot.hash)',
           selected' \in {0, selected, file},
           post'.stage \in {"sent", "locked"}
               => \/ post.stage \in {"sent", "locked"} /\ post'.body = post.body
                  \/ post'.body = copy,
           worker'[Upload].step \in {"check", "store"}
               => \/ worker[Upload].step \in {"check", "store"}
                     /\ worker'[Upload].next = worker[Upload].next
                  \/ post.stage \in {"sent", "locked"} /\ worker'[Upload].next = post.body,
           \A a \in Attempts : worker'[a].step \in {"check", "store"}
               => \/ worker[a].step \in {"check", "store"} /\ worker'[a].read = worker[a].read
                  \/ worker'[a].read = file,
           \A w \in Workers : worker'[w].step = "save"
               => \/ worker[w].step = "save" /\ worker'[w].next = worker[w].next
                  \/ Within(worker[w].next)'
    PROVE  WithinInv'
  <1>1. ASSUME NEW h, h \in 1 .. writes, Within(h)
        PROVE  \A r \in Users : data'[h].credits[r]
                                   <= kept'[r] + (IF r \in data'[h].rows THEN 1 ELSE 0)
    BY <1>1, WithinKept
  <1>2. /\ file \in 1 .. writes /\ copy \in 1 .. writes /\ snapshot.hash \in 1 .. writes
        /\ selected # 0 => selected \in 1 .. writes
        /\ post.stage \in {"sent", "locked"} => post.body \in 1 .. writes
        /\ \A w \in Workers : worker[w].step \in {"check", "store", "save"}
               => worker[w].read \in 1 .. writes /\ worker[w].next \in 1 .. writes
    BY DEF Frame, TypeOK
  <1>3. Within(file)' /\ Within(copy)' /\ Within(snapshot.hash)'
    <2>1. Within(file)'
      BY <1>1, <1>2 DEF WithinInv, Within, Row
    <2>2. Within(copy)'
      BY <1>1, <1>2 DEF WithinInv, Within, Row
    <2>3. Within(snapshot.hash)'
      BY <1>1, <1>2 DEF WithinInv, Within, Row
    <2> QED
      BY <2>1, <2>2, <2>3
  <1>4. (selected # 0 => Within(selected))'
    BY <1>1, <1>2 DEF WithinInv, Within, Row
  <1>5. (post.stage \in {"sent", "locked"} => Within(post.body))'
    BY <1>1, <1>2 DEF WithinInv, Within, Row
  <1>6. (worker[Upload].step \in {"check", "store"} => Within(worker[Upload].next))'
    BY <1>1, <1>2 DEF WithinInv, Within, Row
  <1>7. (\A a \in Attempts : worker[a].step \in {"check", "store"} => Within(worker[a].read))'
    BY <1>1, <1>2 DEF WithinInv, Within, Row
  <1>8. (\A w \in Workers : worker[w].step = "save" => Within(worker[w].next))'
    BY <1>1, <1>2 DEF WithinInv, Within, Row
  <1> QED
    BY <1>3, <1>4, <1>5, <1>6, <1>7, <1>8 DEF WithinInv

\* Nothing of what WithinInv speaks of changes.
LEMMA WithinSame ==
    ASSUME Frame, WithinInv, [SigninNext]_signinVars,
           UNCHANGED <<file, copy, snapshot, selected, post, worker>>
    PROVE  WithinInv'
  BY WithinStep

LEMMA ReleaseWithin ==
    ASSUME Frame, WithinInv, [SigninNext]_signinVars, NEW w \in Workers, lock = w, Release(w),
           file' = file \/ Within(file)', UNCHANGED <<copy, selected>>,
           snapshot'.hash = snapshot.hash \/ Within(snapshot.hash)',
           post'.stage \in {"sent", "locked"}
               => post.stage \in {"sent", "locked"} /\ post'.body = post.body
    PROVE  WithinInv'
  <1>1. \A v \in Workers : worker'[v].step = "none"
    BY ReleaseThreads
  <1> QED
    BY <1>1, WithinStep

LEMMA FailsPost ==
    ASSUME Frame, NEW w \in Workers, Fails(w)
    PROVE  post'.stage \in {"sent", "locked"}
               => post.stage \in {"sent", "locked"} /\ post'.body = post.body
  <1>1. CASE post' = [post EXCEPT !.stage = "failed"]
    BY <1>1, FrameTypes DEF Posts
  <1> QED
    BY <1>1 DEF Fails

LEMMA DownloadWithin ==
    ASSUME Frame, WithinInv, [SigninNext]_signinVars, NEW a \in Attempts, Download(a)
    PROVE  WithinInv'
  <1> USE DEF syncVars, historyVars
  <1>1. /\ worker \in [Workers -> Threads] /\ lock = a /\ a \in Workers /\ a # Upload
        /\ UNCHANGED <<file, copy, snapshot, selected, post>>
    BY BoundAssumption DEF Download, Frame, TypeOK, LockInv
  <1>2. CASE Release(a)
    BY <1>1, <1>2, ReleaseWithin
  <1>3. CASE worker' = [worker EXCEPT ![a].step = "check", ![a].read = file,
                                       ![a].next = writes + 1]
    <2>1. /\ worker'[a].step = "check" /\ worker'[a].read = file
          /\ \A v \in Workers : v # a => worker'[v].step = "none"
      BY <1>1, <1>3 DEF Frame, LockInv, Threads
    <2> QED
      BY <1>1, <2>1, WithinStep
  <1> QED
    BY <1>2, <1>3 DEF Download

LEMMA CheckWithin ==
    ASSUME Frame, WithinInv, [SigninNext]_signinVars, NEW w \in Workers, Check(w)
    PROVE  WithinInv'
  <1> USE DEF fileVars, historyVars
  <1>1. /\ worker \in [Workers -> Threads] /\ lock = w /\ worker[w] \in Threads
        /\ worker[w].step = "check"
        /\ UNCHANGED <<file, copy, snapshot, selected>>
    BY DEF Check, Frame, TypeOK, LockInv
  <1>2. CASE Fails(w)
    BY <1>1, <1>2, FailsPost, ReleaseWithin DEF Fails
  <1>3. CASE /\ \/ worker' = [worker EXCEPT ![w].step = "store"]
                \/ worker' = [worker EXCEPT ![w].step = "download", ![w].again = TRUE]
             /\ UNCHANGED post
    <2>1. /\ worker'[w].read = worker[w].read /\ worker'[w].next = worker[w].next
          /\ worker'[w].step # "save"
          /\ \A v \in Workers : v # w => worker'[v] = worker[v]
      BY <1>1, <1>3 DEF Threads
    <2> QED
      BY <1>1, <1>3, <2>1, WithinStep
  <1> QED
    BY <1>2, <1>3 DEF Check

LEMMA StoreWithin ==
    ASSUME Frame, DerivedInv, WithinInv, [SigninNext]_signinVars, NEW w \in Workers, Store(w)
    PROVE  WithinInv'
  <1> USE DEF historyVars
  <1>1. /\ worker \in [Workers -> Threads] /\ lock = w /\ worker[w] \in Threads
        /\ worker[w].step = "store"
        /\ UNCHANGED <<data, copy, snapshot, selected>>
    BY DEF Store, Frame, TypeOK, LockInv
  <1>2. ASSUME InPlace(w)
        PROVE  \A r \in Users : data'[worker[w].next].credits[r]
                   <= kept'[r] + (IF r \in data'[worker[w].next].rows THEN 1 ELSE 0)
    <2>1. CASE w = Upload
      <3>1. worker[w].next \in 1 .. writes /\ Within(worker[w].next)
        BY <1>1, <2>1 DEF WithinInv, Frame, TypeOK
      <3> QED
        BY <3>1, WithinKept
    <2>2. CASE w # Upload
      <3>1. w \in Attempts /\ Within(worker[w].read)
        BY <1>1, <2>2 DEF WithinInv
      <3> QED
        BY <1>1, <1>2, <3>1, MadeWithin
    <2> QED
      BY <2>1, <2>2
  <1>3. InPlace(w) => file' = worker[w].next /\ Within(file)'
    BY <1>2 DEF InPlace, Within, Row
  <1>4. CASE Fails(w) /\ (InPlace(w) \/ UNCHANGED file)
    BY <1>1, <1>3, <1>4, FailsPost, ReleaseWithin DEF Fails
  <1>5. CASE InPlace(w) /\ worker' = [worker EXCEPT ![w].step = "save"] /\ UNCHANGED post
    <2>1. /\ worker'[w].step = "save" /\ worker'[w].next = worker[w].next
          /\ \A v \in Workers : v # w => worker'[v] = worker[v]
      BY <1>1, <1>5 DEF Threads
    <2>2. Within(worker[w].next)'
      BY <1>2, <1>5, <2>1 DEF Within, Row
    <2>3. \A v \in Workers : worker'[v].step = "save"
              => \/ worker[v].step = "save" /\ worker'[v].next = worker[v].next
                 \/ Within(worker[v].next)'
      BY <2>1, <2>2
    <2>4. \A v \in Workers : worker'[v].step \in {"check", "store"} => worker'[v] = worker[v]
      BY <2>1
    <2> QED
      BY <1>1, <1>3, <1>5, <2>3, <2>4, WithinStep
  <1> QED
    BY <1>4, <1>5 DEF Store

LEMMA SavedWithin ==
    ASSUME Frame, [SigninNext]_signinVars, NEW h \in 1 .. writes, Within(h),
           snapshot' = SavedAs(h)
    PROVE  Within(snapshot.hash)'
  <1>1. snapshot'.hash = h
    BY SavedAsFields DEF Frame
  <1> QED
    BY <1>1, WithinKept DEF Within, Row

LEMMA SaveWithin ==
    ASSUME Frame, WithinInv, [SigninNext]_signinVars, NEW w \in Workers, Save(w)
    PROVE  WithinInv'
  <1> USE DEF fileVars
  <1>1. /\ lock = w /\ worker[w].step = "save" /\ worker[w].next \in 1 .. writes
        /\ Within(worker[w].next)
        /\ UNCHANGED <<file, copy, selected>>
    BY DEF Save, Frame, TypeOK, LockInv, WithinInv
  <1>2. CASE Fails(w) /\ UNCHANGED snapshot
    BY <1>1, <1>2, FailsPost, ReleaseWithin DEF Fails
  <1>3. CASE Release(w) /\ snapshot' = SavedAs(worker[w].next) /\ UNCHANGED post
    BY <1>1, <1>3, SavedWithin, ReleaseWithin
  <1>4. CASE /\ Release(w) /\ snapshot' = SavedAs(worker[w].next)
             /\ post' = [post EXCEPT !.stage = "done", !.new = SavedAs(worker[w].next)]
    <2>1. post'.stage = "done"
      BY <1>4, FrameTypes DEF Posts
    <2> QED
      BY <1>1, <1>4, <2>1, SavedWithin, ReleaseWithin
  <1> QED
    BY <1>2, <1>3, <1>4 DEF Save

LEMMA GameEditWithin ==
    ASSUME Frame, WithinInv, [SigninNext]_signinVars, GameEdit
    PROVE  WithinInv'
  <1> USE DEF portalVars, syncVars, historyVars
  <1>1. UNCHANGED <<copy, snapshot, selected, post, kept>>
    BY DEF GameEdit
  <1>2. Within(file)'
    BY <1>1, GameEditRows DEF WithinInv, Within, Row
  <1>3. \A w \in Workers : /\ worker'[w].step = worker[w].step
                           /\ worker'[w].read = worker[w].read /\ worker'[w].next = worker[w].next
    BY GameEditThreads
  <1> QED
    BY <1>1, <1>2, <1>3, WithinStep

LEMMA NextWithin ==
    ASSUME Frame, DerivedInv, WithinInv, [SigninNext]_signinVars
    PROVE  WithinInv'
  <1> USE DEF fileVars, portalVars, syncVars, historyVars
  <1>1. CASE UNCHANGED signinVars
    BY <1>1, WithinSame DEF signinVars
  <1>2. CASE AskNext
    BY <1>2, WithinSame DEF AskNext, AskSignin, AskReset
  <1>3. CASE \E a \in Attempts : GiveUp(a) \/ Finish(a)
    BY <1>3, WithinSame DEF GiveUp, Finish
  <1>4. CASE \E a \in Attempts : Begin(a)
    <2>1. PICK a \in Attempts : Begin(a)
      BY <1>4
    <2>2. \A w \in Workers : worker'[w].step \in {"check", "store", "save"}
              => worker'[w] = worker[w]
      BY <2>1 DEF Begin, Idle, Frame, TypeOK
    <2> QED
      BY <2>1, <2>2, WithinStep DEF Begin
  <1>5. CASE \E a \in Attempts : Download(a)
    BY <1>5, DownloadWithin
  <1>6. CASE \E w \in Workers : Check(w) \/ Store(w) \/ Save(w)
    BY <1>6, CheckWithin, StoreWithin, SaveWithin
  <1>7. CASE BeginUpload
    <2>1. /\ worker'[Upload].next = post.body
          /\ \A w \in Workers : w # Upload => worker'[w] = worker[w]
          /\ worker'[Upload].step = "check" /\ post.stage = "locked"
      BY <1>7 DEF BeginUpload, RowHeld, Idle, Frame, TypeOK
    <2>2. \A a \in Attempts : a \in Workers /\ a # Upload
      BY BoundAssumption
    <2>3. \A w \in Workers : worker'[w].step = "save" => worker'[w] = worker[w]
      BY <2>1
    <2> QED
      BY <1>7, <2>1, <2>2, <2>3, WithinStep DEF BeginUpload
  <1>8. CASE Accept
    <2>1. post'.body = post.body /\ post.stage = "sent"
      BY <1>8, FrameTypes DEF Accept, Posts
    <2> QED
      BY <1>8, <2>1, WithinStep DEF Accept
  <1>9. CASE Select
    <2>1. Within(snapshot.hash)'
      BY <1>9, FrameTypes, SavedWithin DEF Select, WithinInv
    <2> QED
      BY <1>9, <2>1, WithinStep DEF Select
  <1>10. CASE SelectSlowly
    BY <1>10, WithinStep DEF SelectSlowly
  <1>11. CASE SaveSelected
    <2>1. selected \in 1 .. writes /\ Within(selected)
      BY <1>11, FrameTypes DEF SaveSelected, WithinInv
    <2>2. snapshot' = SavedAs(selected) => Within(snapshot.hash)'
      BY <2>1, SavedWithin
    <2> QED
      BY <1>11, <2>2, WithinStep DEF SaveSelected
  <1>12. CASE Recover \/ Deliver \/ Repull
    BY <1>12, WithinSame DEF Recover, Deliver, Repull
  <1>13. CASE Retry
    <2>1. post'.body = copy
      BY <1>13 DEF Retry, NoPost
    <2> QED
      BY <1>13, <2>1, WithinStep DEF Retry
  <1>14. CASE StopWaiting \/ Restart
    <2>1. post' = [post EXCEPT !.waits = FALSE]
      BY <1>14 DEF StopWaiting, Restart
    <2>2. post'.stage = post.stage /\ post'.body = post.body
      BY <2>1, FrameTypes DEF Posts
    <2> QED
      BY <1>14, <2>2, WithinStep DEF StopWaiting, Restart
  <1>15. CASE PostAnswer
    <2>1. post'.stage = "none"
      BY <1>15 DEF PostAnswer, NoPost
    <2> QED
      BY <1>15, <2>1, WithinStep DEF PostAnswer
  <1>16. CASE PullDone
    <2>1. copy' \in {copy, snapshot.hash}
      BY <1>16 DEF PullDone
    <2> QED
      BY <1>16, <2>1, WithinStep DEF PullDone
  <1>17. CASE GameEdit
    BY <1>17, GameEditWithin
  <1> QED
    BY <1>1, <1>2, <1>3, <1>4, <1>5, <1>6, <1>7, <1>8, <1>9, <1>10, <1>11, <1>12, <1>13, <1>14,
       <1>15, <1>16, <1>17 DEF SigninNext, WorkerNext

\* However messages, resets, failures, snapshots and uploads meet, a member is
\* credited once a day, and once more for each reset that left the reward.
THEOREM OneRewardOnly == SigninSpec => []OneRewardPerDay
  <1>1. Init => WithinInv /\ DerivedInv
    <2> SUFFICES ASSUME Init PROVE WithinInv /\ DerivedInv
      OBVIOUS
    <2>1. \A h \in {1, 2} : data[h] = Empty
      BY BoundAssumption DEF Init, Hashes
    <2>2. \A h \in {1, 2} : Within(h)
      BY <2>1 DEF Init, Within, Row, Empty
    <2> QED
      BY <2>2 DEF Init, WithinInv, DerivedInv, Idle, NoPost, First
  <1>2. Frame /\ WithinInv => OneRewardPerDay
    <2> SUFFICES ASSUME Frame, WithinInv, NEW r \in Users
                 PROVE  data[file].credits[r] <= 1 + kept[r]
      BY DEF OneRewardPerDay
    <2>1. data[file] \in Contents /\ kept[r] \in Nat
      BY BoundAssumption DEF Frame, TypeOK, Hashes
    <2>2. data[file].credits[r] \in Nat
      BY <2>1 DEF Contents
    <2> QED
      BY <2>1, <2>2 DEF WithinInv, Within, Row
  <1> QED
    BY <1>1, <1>2, NextWithin, NextDerived, SigninFrame, PTL DEF SigninSpec

=============================================================================
