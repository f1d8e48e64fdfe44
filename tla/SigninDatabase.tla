--------------------------- MODULE SigninDatabase ---------------------------
(***************************************************************************)
(* Sign-ins whose reward is paid by a transaction on the SQLite file of    *)
(* the game server, which the portal reaches over FTP.                     *)
(*                                                                         *)
(* The bot keeps a mirror of the sign-ins and judges a request by it; the  *)
(* portal downloads the file, runs the transaction on a private copy,      *)
(* reads the file again and stores the copy if nothing has changed.  It    *)
(* also retains the file as a snapshot with a revision, whose descriptor   *)
(* travels in the group's configuration; the bot pulls the snapshot into a *)
(* local copy, and after a restart uploads a local copy that is not the    *)
(* one its descriptor names.                                               *)
(*                                                                         *)
(* A file is known by its hash: every transaction and every change of the  *)
(* game makes a new one, and data[h] is what the file with hash h holds:   *)
(* the rows of sign_log, the rewards credited and not taken back, the      *)
(* audit rows of credits, and how many changes of the game it includes.    *)
(* One group, one server, one day.                                         *)
(***************************************************************************)
EXTENDS Integers, FiniteSets

CONSTANTS
    Users,
    Attempts,      \* messages: a sign-in, or an administrator's reset
    Upload,        \* the worker of the upload endpoint
    NoOne,         \* nobody holds the lock of the database
    May,           \* bound: what each message may be, and for whom
    MaxWrites,     \* bound: files that are ever made
    MaxTrouble     \* bound: failures, timeouts, restarts, changes by the game,
                   \* selections that are overtaken

ASSUME BoundAssumption ==
    /\ MaxWrites \in Nat /\ MaxWrites > 1 /\ MaxTrouble \in Nat
    /\ May \in [Attempts -> SUBSET ({"sign", "reset"} \X Users)]
    /\ {NoOne, Upload} \cap Attempts = {} /\ NoOne # Upload

Hashes == 1 .. MaxWrites
Workers == Attempts \union {Upload}

VARIABLES
    data,        \* sign_log and credited rewards of every file
    writes,      \* the last file made
    file,        \* the file on the FTP server
    snapshot,    \* PortalDatabaseSnapshot: revision and hash
    published,   \* the descriptor in the group's configuration
    selected,    \* the file an owner's selection has downloaded, 0: none
    lock,        \* the holder of _ftp_database_lock
    worker,      \* the threads that change the file
    job,         \* the messages
    mirror,      \* the members whose sign-in the bot's group file records
    held,        \* the descriptor in the bot's group file
    copy,        \* the bot's local file
    pull,        \* the descriptor a pull is after
    pending,     \* _database_snapshot_upload_pending
    post,        \* an upload on its way
    checked,     \* _database_snapshot_recovery_checked
    trouble,     \* failures and changes by the game so far
    paidBy,      \* history: messages whose reward was paid
    granted,     \* history: sign-ins that the portal committed, not reset since
    kept         \* history: resets that left the reward with the member

fileVars == <<data, writes, file>>
portalVars == <<snapshot, published, selected, lock, worker>>
syncVars == <<held, copy, pull, pending, post, checked>>
historyVars == <<paidBy, granted, kept>>
signinVars == <<fileVars, portalVars, job, mirror, syncVars,
                trouble, historyVars>>

Nothing == [revision |-> 0, hash |-> 0]
NoPost == [stage |-> "none", of |-> Nothing, body |-> 0, new |-> Nothing,
           waits |-> FALSE]
\* late: changes of the game since this thread compared the file
Idle == [step |-> "none", read |-> 0, next |-> 0, again |-> FALSE, late |-> 0]
NewJob == [kind |-> "none", user |-> NoOne, keep |-> FALSE,
           stage |-> "new", ok |-> FALSE, waits |-> FALSE,
           shown |-> FALSE]

Empty == [rows |-> {}, credits |-> [r \in Users |-> 0], audits |-> [r \in Users |-> 0],
          edits |-> 0]
First == [revision |-> 1, hash |-> 1]

\* The local copy may be one that an older build left unsent.
Init ==
    /\ data = [h \in Hashes |-> Empty]
    /\ writes = 2
    /\ file = 1
    /\ snapshot = First /\ published = First /\ held = First
    /\ selected = 0
    /\ lock = NoOne
    /\ worker = [w \in Workers |-> Idle]
    /\ job = [a \in Attempts |-> NewJob]
    /\ mirror = {}
    /\ copy \in {1, 2}
    /\ pull = Nothing /\ pending = Nothing /\ post = NoPost
    /\ checked = FALSE
    /\ trouble = 0
    /\ paidBy = {} /\ granted = {}
    /\ kept = [r \in Users |-> 0]

\* Nothing of a message is kept but what its sender was shown.
Done(kind, shown) == [NewJob EXCEPT !.kind = kind, !.stage = "done", !.shown = shown]

Trouble == trouble < MaxTrouble /\ trouble' = trouble + 1

-----------------------------------------------------------------------------
(* Messages to the bot.                                                    *)

Sent(kind, u, keep) ==
    [NewJob EXCEPT !.kind = kind, !.user = u, !.keep = keep, !.stage = "sent", !.waits = TRUE]

\* do_signin up to its await.  preview_signin_reward refuses a member whose
\* last recorded sign-in is of today.
AskSignin(a, u) ==
    /\ job[a].stage = "new" /\ <<"sign", u>> \in May[a]
    /\ \/ u \notin mirror /\ job' = [job EXCEPT ![a] = Sent("sign", u, FALSE)]
       \/ u \in mirror /\ job' = [job EXCEPT ![a] = Done("sign", FALSE)]
    /\ UNCHANGED <<fileVars, portalVars, mirror, syncVars, trouble, historyVars>>

\* reset_signin_command: the reward is taken back unless the administrator
\* says otherwise.
AskReset(a, u, keep) ==
    /\ job[a].stage = "new" /\ <<"reset", u>> \in May[a]
    /\ job' = [job EXCEPT ![a] = Sent("reset", u, keep)]
    /\ UNCHANGED <<fileVars, portalVars, mirror, syncVars, trouble, historyVars>>

\* The request times out or its answer is lost; the portal goes on.
GiveUp(a) ==
    /\ job[a].waits
    /\ Trouble
    /\ job' = [job EXCEPT ![a].waits = FALSE]
    /\ UNCHANGED <<fileVars, portalVars, mirror, syncVars, historyVars>>

\* What signin() and reset_signin() record once the portal has confirmed.
Recorded(a) ==
    IF job[a].kind = "sign" THEN mirror \union {job[a].user} ELSE mirror \ {job[a].user}

\* The answer arrives.  Only what is confirmed is recorded and shown as a
\* success; the group file, or the SteamID record after it, may not be saved.
Finish(a) ==
    /\ job[a].stage = "answered" /\ job[a].waits
    /\ LET shows(b) == job' = [job EXCEPT ![a] = Done(job[a].kind, b)]
       IN  \/ /\ job[a].ok
              /\ \/ mirror' = Recorded(a) /\ shows(TRUE) /\ UNCHANGED trouble
                 \/ Trouble /\ mirror' = Recorded(a) /\ shows(FALSE)
                 \/ Trouble /\ UNCHANGED mirror /\ shows(FALSE)
           \/ /\ ~job[a].ok
              /\ shows(FALSE)
              /\ UNCHANGED <<mirror, trouble>>
    /\ UNCHANGED <<fileVars, portalVars, syncVars, historyVars>>

-----------------------------------------------------------------------------
(* The portal: one worker at a time holds _ftp_database_lock.              *)

Answered(a, ok) ==
    job' = [job EXCEPT ![a].stage = "answered", ![a].ok = ok]

\* What a thread is there for.
KindOf(w) == IF w = Upload THEN "upload" ELSE job[w].kind

Release(w) ==
    /\ lock' = NoOne
    /\ worker' = [worker EXCEPT ![w] = Idle]

\* Mutant of Begin: the lock is not shared by the threads.
BeginUnlocked(a) ==
    /\ job[a].stage = "sent"
    /\ lock' = a
    /\ worker' = [worker EXCEPT ![a] = [Idle EXCEPT !.step = "download"]]
    /\ job' = [job EXCEPT ![a].stage = "running"]
    /\ UNCHANGED <<fileVars, snapshot, published, selected, mirror, syncVars, trouble,
                   historyVars>>

\* The thread takes the lock.
Begin(a) ==
    /\ lock = NoOne
    /\ job[a].stage = "sent"
    /\ lock' = a
    /\ worker' = [worker EXCEPT ![a] = [Idle EXCEPT !.step = "download"]]
    /\ job' = [job EXCEPT ![a].stage = "running"]
    /\ UNCHANGED <<fileVars, snapshot, published, selected, mirror, syncVars, trouble,
                   historyVars>>

\* apply_signin_reward: the row of the day is the record of the reward.
Signed(c, r) ==
    [rows |-> c.rows \union {r},
     credits |-> [c.credits EXCEPT ![r] = c.credits[r] + 1],
     audits |-> [c.audits EXCEPT ![r] = c.audits[r] + 1],
     edits |-> c.edits]

\* reset_signin_record.
Reset(c, r, keep) ==
    [rows |-> c.rows \ {r},
     credits |-> IF keep THEN c.credits
                 ELSE [c.credits EXCEPT ![r] = c.credits[r] - 1],
     audits |-> c.audits,
     edits |-> c.edits]

\* Mutants of Allowed: without the duplicate check, or a reset of any row.
AllowedTwice(kind, c, r, keep) ==
    kind = "sign" \/ (kind = "reset" /\ r \in c.rows /\ (keep \/ c.audits[r] = 1))
AllowedReset(kind, c, r, keep) == kind = "reset" \/ r \notin c.rows

\* A member signs in once a day; a reward is taken back only if exactly one
\* audit row tells which it was.
Allowed(kind, c, r, keep) ==
    \/ kind = "sign" /\ r \notin c.rows
    \/ kind = "reset" /\ r \in c.rows /\ (keep \/ c.audits[r] = 1)

\* The transaction on a private copy of the file.  It may be refused, for a
\* reset also because the balance has changed since; the file may be out of
\* reach.
Download(a) ==
    /\ worker[a].step = "download"
    /\ LET kind == job[a].kind
           c == data[file]
           r == job[a].user
       IN  \/ /\ Allowed(kind, c, r, job[a].keep)
              /\ writes < MaxWrites
              /\ writes' = writes + 1
              /\ data' = [data EXCEPT ![writes + 1] =
                            IF kind = "sign" THEN Signed(c, r) ELSE Reset(c, r, job[a].keep)]
              /\ worker' = [worker EXCEPT ![a].step = "check", ![a].read = file,
                                          ![a].next = writes + 1]
              /\ UNCHANGED <<lock, job, trouble>>
           \/ /\ \/ ~Allowed(kind, c, r, job[a].keep)
                 \/ kind = "reset" /\ ~job[a].keep
              /\ Answered(a, FALSE)
              /\ Release(a)
              /\ UNCHANGED <<data, writes, trouble>>
           \/ /\ Trouble
              /\ Answered(a, FALSE)
              /\ Release(a)
              /\ UNCHANGED <<data, writes>>
    /\ UNCHANGED <<file, snapshot, published, selected, mirror, syncVars, historyVars>>

\* Mutant of Fails: an upload to the FTP server that fails is not noticed.
FailsUnnoticed(w) ==
    /\ Release(w)
    /\ IF w = Upload THEN post' = [post EXCEPT !.stage = "failed"] /\ UNCHANGED job
       ELSE Answered(w, TRUE) /\ UNCHANGED post

\* The sign-in, the reset or the upload has failed.
Fails(w) ==
    /\ Release(w)
    /\ IF w = Upload THEN post' = [post EXCEPT !.stage = "failed"] /\ UNCHANGED job
       ELSE Answered(w, FALSE) /\ UNCHANGED post

\* Mutant of Check: the file is not compared.
CheckBlindly(w) ==
    /\ worker[w].step = "check"
    /\ worker' = [worker EXCEPT ![w].step = "store"]
    /\ UNCHANGED <<fileVars, snapshot, published, selected, lock, job, mirror, syncVars,
                   trouble,
                   historyVars>>

\* The file is read again before it is replaced.  A sign-in and a reset start
\* over once; an upload does not.
Check(w) ==
    /\ worker[w].step = "check"
    /\ LET again == w # Upload /\ ~worker[w].again
       IN  \/ /\ file = worker[w].read
              /\ worker' = [worker EXCEPT ![w].step = "store"]
              /\ UNCHANGED <<lock, job, post>>
           \/ /\ file # worker[w].read /\ again
              /\ worker' = [worker EXCEPT ![w].step = "download", ![w].again = TRUE]
              /\ UNCHANGED <<lock, job, post>>
           \/ /\ file # worker[w].read /\ ~again
              /\ Fails(w)
    /\ UNCHANGED <<fileVars, snapshot, published, selected, mirror, held, copy, pull,
                   pending,
                   checked, trouble, historyVars>>

\* What a file that is in place means for the member.
InPlace(w) ==
    /\ file' = worker[w].next
    /\ paidBy' = IF KindOf(w) = "sign" THEN paidBy \union {w} ELSE paidBy
    /\ granted' = IF KindOf(w) = "reset" THEN granted \ {job[w].user} ELSE granted
    /\ kept' = IF KindOf(w) = "reset" /\ job[w].keep
               THEN [kept EXCEPT ![job[w].user] = kept[job[w].user] + 1]
               ELSE kept

\* STOR: it succeeds, fails, or succeeds without the portal learning of it.
Store(w) ==
    /\ worker[w].step = "store"
    /\ \/ /\ InPlace(w)
          /\ worker' = [worker EXCEPT ![w].step = "save"]
          /\ UNCHANGED <<lock, job, post, trouble>>
       \/ Trouble /\ InPlace(w) /\ Fails(w)
       \/ Trouble /\ Fails(w) /\ UNCHANGED <<file, historyVars>>
    /\ UNCHANGED <<data, writes, snapshot, published, selected, mirror, held, copy, pull,
                   pending,
                   checked>>

\* Mutant of SavedAs: the revision does not advance.
SavedAsIs(h) == [snapshot EXCEPT !.hash = h]

\* save_database_snapshot: a new revision when the file has changed.
SavedAs(h) ==
    IF snapshot.hash = h THEN snapshot
    ELSE [revision |-> snapshot.revision + 1, hash |-> h]

\* An upload holds the row of the snapshot from the moment it is accepted.
RowHeld == post.stage = "locked"

\* Mutant of Save: whoever wants the row waits for it without limit.
SavePatiently(w) ==
    /\ worker[w].step = "save"
    /\ LET saved == SavedAs(worker[w].next)
       IN  \/ /\ w # Upload /\ ~RowHeld
              /\ snapshot' = saved
              /\ \/ published' = saved /\ UNCHANGED trouble
                 \/ Trouble /\ UNCHANGED published
              /\ granted' = IF KindOf(w) = "sign" THEN granted \union {job[w].user} ELSE granted
              /\ Answered(w, TRUE)
              /\ Release(w)
              /\ UNCHANGED post
           \/ /\ w = Upload
              /\ snapshot' = saved /\ published' = saved
              /\ post' = [post EXCEPT !.stage = "done", !.new = saved]
              /\ Release(w)
              /\ UNCHANGED <<job, granted, trouble>>
           \/ /\ Trouble /\ (w = Upload \/ ~RowHeld)
              /\ Fails(w)
              /\ UNCHANGED <<snapshot, published, granted>>
    /\ UNCHANGED <<fileVars, selected, mirror, held, copy, pull, pending, checked, paidBy,
                   kept>>

\* The snapshot is committed, and then published in the configuration; for a
\* sign-in or a reset a failure to publish is only logged.  Whoever waits more
\* than five seconds for the row fails.
Save(w) ==
    /\ worker[w].step = "save"
    /\ LET saved == SavedAs(worker[w].next)
       IN  \/ /\ w # Upload /\ ~RowHeld
              /\ snapshot' = saved
              /\ \/ published' = saved /\ UNCHANGED trouble
                 \/ Trouble /\ UNCHANGED published
              /\ granted' = IF KindOf(w) = "sign" THEN granted \union {job[w].user} ELSE granted
              /\ Answered(w, TRUE)
              /\ Release(w)
              /\ UNCHANGED post
           \/ /\ w # Upload /\ RowHeld
              /\ Fails(w)
              /\ UNCHANGED <<snapshot, published, granted, trouble>>
           \/ /\ w = Upload
              /\ snapshot' = saved /\ published' = saved
              /\ post' = [post EXCEPT !.stage = "done", !.new = saved]
              /\ Release(w)
              /\ UNCHANGED <<job, granted, trouble>>
           \/ /\ Trouble
              /\ Fails(w)
              /\ UNCHANGED <<snapshot, published, granted>>
    /\ UNCHANGED <<fileVars, selected, mirror, held, copy, pull, pending, checked, paidBy,
                   kept>>

\* An upload is accepted only if its base is the current snapshot; the row
\* stays locked until the upload has ended.
Accept ==
    /\ post.stage = "sent"
    /\ post' = [post EXCEPT !.stage = IF snapshot = post.of THEN "locked" ELSE "refused"]
    /\ UNCHANGED <<fileVars, portalVars, job, mirror, held, copy, pull, pending,
                   checked, trouble, historyVars>>

BeginUpload ==
    /\ lock = NoOne
    /\ RowHeld /\ worker[Upload] = Idle
    /\ lock' = Upload
    /\ worker' = [worker EXCEPT ![Upload] = [Idle EXCEPT !.step = "check",
                                    !.read = post.of.hash, !.next = post.body]]
    /\ UNCHANGED <<fileVars, snapshot, published, selected, job, mirror, syncVars, trouble,
                   historyVars>>

\* The owner selects or tests the database: its file is downloaded and saved.
Select ==
    /\ ~RowHeld
    /\ snapshot' = SavedAs(file) /\ published' = SavedAs(file)
    /\ UNCHANGED <<fileVars, selected, lock, worker, job, mirror, syncVars, trouble,
                   historyVars>>

\* The download does not take the lock, so the file may be replaced before its
\* content is saved; the saving fails if an upload keeps the row.
SelectSlowly ==
    /\ selected = 0
    /\ Trouble
    /\ selected' = file
    /\ UNCHANGED <<fileVars, snapshot, published, lock, worker, job, mirror, syncVars,
                   historyVars>>

SaveSelected ==
    /\ selected # 0
    /\ selected' = 0
    /\ \/ ~RowHeld /\ snapshot' = SavedAs(selected) /\ published' = SavedAs(selected)
       \/ RowHeld /\ UNCHANGED <<snapshot, published>>
    /\ UNCHANGED <<fileVars, lock, worker, job, mirror, syncVars, trouble, historyVars>>

-----------------------------------------------------------------------------
(* The bot's heartbeat.                                                    *)

\* _recover_unacknowledged_local_database_snapshots, on the first heartbeat:
\* a local copy that differs from its descriptor is to be uploaded.
Recover ==
    /\ ~checked
    /\ checked' = TRUE
    /\ pending' = IF pending = Nothing /\ copy # held.hash THEN held ELSE pending
    /\ UNCHANGED <<fileVars, portalVars, job, mirror, held, copy, pull, post,
                   trouble, historyVars>>

\* _retry_pending_database_snapshot_uploads.
Retry ==
    /\ checked
    /\ pending # Nothing
    /\ post.stage = "none"
    /\ post' = [NoPost EXCEPT !.stage = "sent", !.of = pending, !.body = copy,
                              !.waits = TRUE]
    /\ UNCHANGED <<fileVars, portalVars, job, mirror, held, copy, pull, pending,
                   checked, trouble, historyVars>>

\* The heartbeat waits one second for the answer; the portal goes on.
StopWaiting ==
    /\ post.waits
    /\ Trouble
    /\ post' = [post EXCEPT !.waits = FALSE]
    /\ UNCHANGED <<fileVars, portalVars, job, mirror, held, copy, pull, pending,
                   checked, historyVars>>

\* Mutant of PostAnswer: only an upload that is done is forgotten.
PostAnswerKept ==
    /\ post.stage \in {"refused", "failed", "done"}
    /\ post' = NoPost
    /\ pending' = IF post.waits /\ post.stage = "done" THEN Nothing ELSE pending
    /\ held' = IF post.waits /\ post.stage = "done" THEN post.new ELSE held
    /\ UNCHANGED <<fileVars, portalVars, job, mirror, copy, pull, checked, trouble,
                   historyVars>>

\* A refused upload is forgotten and a failed one stays; one that is done
\* advances the descriptor in the group file.
PostAnswer ==
    /\ post.stage \in {"refused", "failed", "done"}
    /\ post' = NoPost
    /\ pending' = IF post.waits /\ (post.stage = "done" => post.new # post.of)
                                /\ post.stage # "failed"
                  THEN Nothing ELSE pending
    /\ held' = IF post.waits /\ post.stage = "done" THEN post.new ELSE held
    /\ UNCHANGED <<fileVars, portalVars, job, mirror, copy, pull, checked,
                   trouble, historyVars>>

\* A configuration arrives and is acknowledged; a pull is started, but not
\* beside another one or an upload that is pending.
Deliver ==
    /\ checked /\ ~post.waits
    /\ held' = published
    /\ pull' = IF pull = Nothing /\ pending = Nothing THEN published ELSE pull
    /\ UNCHANGED <<fileVars, portalVars, job, mirror, copy, pending, post, checked,
                   trouble, historyVars>>

\* Every heartbeat starts a pull for a copy that is not the described one.
Repull ==
    /\ checked /\ ~post.waits
    /\ copy # held.hash
    /\ pull = Nothing /\ pending = Nothing
    /\ pull' = held
    /\ UNCHANGED <<fileVars, portalVars, job, mirror, held, copy, pending, post,
                   checked, trouble, historyVars>>

\* The snapshot is written over the local copy if it is the one asked for.
PullDone ==
    /\ pull # Nothing
    /\ pull' = Nothing
    /\ \/ /\ copy' = IF snapshot = pull THEN pull.hash ELSE copy
          /\ UNCHANGED trouble
       \/ Trouble /\ UNCHANGED copy
    /\ UNCHANGED <<fileVars, portalVars, job, mirror, held, pending, post, checked,
                   historyVars>>

\* A restart of the bot: only files survive, the pending uploads among them.
Restart ==
    /\ Trouble
    /\ job' = [a \in Attempts |-> [job[a] EXCEPT !.waits = FALSE]]
    /\ post' = [post EXCEPT !.waits = FALSE]
    /\ pull' = Nothing
    /\ checked' = FALSE
    /\ UNCHANGED <<fileVars, portalVars, mirror, held, copy, pending, historyVars>>

\* The game writes its own file.
GameEdit ==
    /\ Trouble /\ writes < MaxWrites
    /\ writes' = writes + 1
    /\ data' = [data EXCEPT ![writes + 1] = [data[file] EXCEPT !.edits = data[file].edits + 1]]
    /\ file' = writes + 1
    /\ worker' = [w \in Workers |->
                     IF worker[w].step = "store"
                     THEN [worker[w] EXCEPT !.late = worker[w].late + 1] ELSE worker[w]]
    /\ UNCHANGED <<snapshot, published, selected, lock, job, mirror, syncVars, historyVars>>

-----------------------------------------------------------------------------
AskNext ==
    \E a \in Attempts, u \in Users :
        AskSignin(a, u) \/ \E keep \in BOOLEAN : AskReset(a, u, keep)

WorkerNext ==
    \/ \E a \in Attempts : Begin(a) \/ Download(a)
    \/ \E w \in Workers : Check(w) \/ Store(w) \/ Save(w)
    \/ BeginUpload

SigninNext ==
    \/ AskNext
    \/ \E a \in Attempts : GiveUp(a) \/ Finish(a)
    \/ WorkerNext \/ Accept
    \/ Select \/ SelectSlowly \/ SaveSelected
    \/ Recover \/ Retry \/ StopWaiting \/ PostAnswer \/ Deliver \/ Repull \/ PullDone
    \/ Restart \/ GameEdit

SigninSpec == Init /\ [][SigninNext]_signinVars

\* The portal's threads go on, an answer that is there arrives, and the bot
\* polls.
SigninFairness ==
    /\ \A a \in Attempts :
           SF_signinVars(Begin(a)) /\ WF_signinVars(Download(a)) /\ WF_signinVars(Finish(a))
    /\ \A w \in Workers : WF_signinVars(Check(w) \/ Store(w) \/ Save(w))
    /\ SF_signinVars(BeginUpload) /\ WF_signinVars(Accept)
    /\ WF_signinVars(Recover) /\ WF_signinVars(Retry) /\ WF_signinVars(PostAnswer)

FairSigninSpec == SigninSpec /\ SigninFairness

-----------------------------------------------------------------------------
(* Properties.                                                             *)

Contents == [rows : SUBSET Users, credits : [Users -> Nat], audits : [Users -> Nat],
             edits : Nat]
Descriptors == [revision : Nat, hash : Nat]
Threads == [step : {"none", "download", "check", "store", "save"}, read : Nat, next : Nat,
            again : BOOLEAN, late : Nat]
Messages == [kind : {"none", "sign", "reset"}, user : Users \union {NoOne}, keep : BOOLEAN,
             stage : {"new", "sent", "running", "answered", "done"}, ok : BOOLEAN,
             waits : BOOLEAN, shown : BOOLEAN]
Posts == [stage : {"none", "sent", "locked", "refused", "failed", "done"},
          of : Descriptors, body : Nat, new : Descriptors, waits : BOOLEAN]

\* Every hash that is in use is that of a file that was made.
TypeOK ==
    /\ data \in [Hashes -> Contents]
    /\ writes \in Hashes
    /\ {file, copy, snapshot.hash} \subseteq 1 .. writes
    /\ {snapshot, published, held, pull, pending} \subseteq Descriptors
    /\ selected \in 0 .. writes
    /\ lock \in Workers \union {NoOne}
    /\ worker \in [Workers -> Threads]
    /\ \A w \in Workers : worker[w].step \in {"check", "store", "save"}
                              => {worker[w].read, worker[w].next} \subseteq 1 .. writes
    /\ job \in [Attempts -> Messages]
    /\ mirror \subseteq Users
    /\ post \in Posts
    /\ post.stage \in {"sent", "locked"} => post.body \in 1 .. writes
    /\ checked \in BOOLEAN
    /\ trouble \in 0 .. MaxTrouble
    /\ paidBy \subseteq Attempts
    /\ granted \subseteq Users
    /\ kept \in [Users -> Nat]

\* Whatever messages, resets, failures and uploads have met in the file, the
\* server never credits a member twice for a day, other than by resets that an
\* administrator asked to leave the reward.
OneRewardPerDay == \A r \in Users : data[file].credits[r] <= 1 + kept[r]

\* A member is told of a success only if the reward of that very message was
\* paid, whatever was lost between the game, the portal and the bot.
ShownMeansPaid == \A a \in Attempts : job[a].shown /\ job[a].kind # "reset" => a \in paidBy

\* A change of the game that the second reading of the file could see is not
\* overwritten by a transaction on the older file.
SeenEditsKept ==
    \A w \in Workers : worker[w].step = "store" =>
        data[worker[w].read].edits + worker[w].late >= data[file].edits

\* Whoever knows the database by a revision knows the same file: a client that
\* pulls, uploads or compares by revision and hash never mixes two of them.
Known == {snapshot, published, held, pull, pending, post.of, post.new}
OneHashPerRevision == \A x, y \in Known : x.revision = y.revision => x.hash = y.hash

\* A sign-in leaves the file only by its own reset, or by an upload: two
\* transactions never overwrite each other's rows.
RowsLeaveByReset ==
    [][\A r \in data[file].rows \ data'[file'].rows : \E w \in Workers :
           /\ worker[w].step = "store"
           /\ w = Upload \/ (KindOf(w) = "reset" /\ job[w].user = r)]_signinVars

\* Every message is asked once, and in the end nobody waits, though an upload
\* keeps the row of the snapshot while it waits for the lock, and a sign-in
\* keeps the lock while it waits for the row.
EveryMessageAnswered == <>[](\A a \in Attempts : ~job[a].waits)

\* A pending upload, which keeps the bot from pulling, is settled unless the
\* file on the server is not the one the portal has retained.
PendingSettles == (pending # Nothing) ~> (pending = Nothing \/ file # snapshot.hash)

\* What the docstring of _recover_unacknowledged_local_database_snapshots says:
\* an upload is protected by its base, so a sign-in that the portal has
\* committed stays in the file until it is reset.
GrantedStays == granted \subseteq data[file].rows

=============================================================================
