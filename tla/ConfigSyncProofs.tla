--------------------------- MODULE ConfigSyncProofs ---------------------------
(***************************************************************************)
(* Proofs about ConfigSync, for every value of its constants.              *)
(*                                                                         *)
(* The properties are not inductive by themselves: that a client wrote     *)
(* what the portal believes it wrote depends on the acknowledgements on    *)
(* their way, on the change a client is about to acknowledge and on the    *)
(* answer it is about to read.  IInv states what each of those stages      *)
(* knows about the copy on the client's disk.                              *)
(*                                                                         *)
(* What a row shows follows from the row and its cursors alone (Shown and  *)
(* Reported), which every step keeps; whether "synced" is shown too soon   *)
(* follows from what a row records as applied (Level) and from the marks   *)
(* of unreadable sources.  Which groups reach a client follows from the    *)
(* names on their way (ReachInv).                                          *)
(***************************************************************************)
EXTENDS ConfigSync, NaturalMin, TLAPS

Requests == ExchangeRequest \union AckRequest \union PullRequest

\* Where the loop is agrees with the call it waits for, and so does every
\* request and answer that is not abandoned.
WaitsForCall ==
    \A c \in Clients :
        /\ loop[c] \in {"exchange", "ack"} =>
                call[c] \in Call /\ call[c].request.kind = loop[c]
                    /\ call[c].request.from = c
        /\ loop[c] \in {"idle", "confirm"} => call[c] = NoCall
        /\ loop[c] \in {"confirm", "ack"} => change[c] \in Change
        /\ reply[c] # NoReply => loop[c] = reply[c].kind
        /\ pullReply[c] # "none" => pull[c] # NoGroup

SentIsAwaited ==
    \A q \in sent :
        /\ q.kind \in {"exchange", "ack"} =>
                /\ loop[q.from] = q.kind
                /\ call[q.from].request = q
                /\ reply[q.from] = NoReply
        /\ q.kind = "pull" => pull[q.from] = q.group /\ pullReply[q.from] = "none"

\* Rows and cursors.
RowsConsistent ==
    \A g \in Groups :
        /\ snapshot[g].status = "none" => snapshot[g].revision = 0
        /\ snapshot[g].applied <= snapshot[g].revision
        /\ \A c \in Clients :
            /\ clientSync[g][c].applied <= snapshot[g].revision
            /\ ~clientSync[g][c].exists => clientSync[g][c].applied = 0

\* What is known about the copies on the clients' disks.
StoredExists ==
    \A c \in Clients, g \in Groups : stored[c][g] <= snapshot[g].revision

AnswerIsNewer ==
    \A c \in Clients :
        reply[c].kind = "exchange" /\ reply[c].change \in Change =>
            /\ stored[c][reply[c].change.group] <= reply[c].change.revision
            /\ reply[c].change.revision <= snapshot[reply[c].change.group].revision

ChangeWasStored ==
    \A c \in Clients :
        change[c] \in Change => change[c].revision <= stored[c][change[c].group]

AckWasStored(q) == q.kind = "ack" => q.revision <= stored[q.from][q.group]

AcksWereStored ==
    /\ \A q \in sent \union late : AckWasStored(q)
    /\ \A c \in Clients :
        loop[c] \in {"exchange", "ack"} => AckWasStored(call[c].request)

IInv ==
    /\ TypeOK
    /\ WaitsForCall
    /\ SentIsAwaited
    /\ RowsConsistent
    /\ StoredExists
    /\ AnswerIsNewer
    /\ ChangeWasStored
    /\ AcksWereStored
    /\ AcknowledgedWasStored

-----------------------------------------------------------------------------
(* Rows.                                                                    *)

RowOK(row) ==
    /\ row \in Snapshot
    /\ row.status = "none" => row.revision = 0
    /\ row.applied <= row.revision

\* What one portal operation other than a save may do to the revision.
Follows(old, new) ==
    /\ RowOK(new)
    /\ new.revision = old.revision \/ (old.revision = 0 /\ new.revision = 1)

CursorsOK(row, cursors) ==
    /\ cursors \in [Clients -> Cursor]
    /\ \A c \in Clients :
        /\ cursors[c].applied <= row.revision
        /\ ~cursors[c].exists => cursors[c].applied = 0

LEMMA FollowsTransitive ==
    ASSUME NEW a, NEW b, NEW c, Follows(a, b), Follows(b, c)
    PROVE  Follows(a, c)
BY DEF Follows

LEMMA CursorType ==
    /\ \A r \in Nat : CursorAt(r) \in Cursor
    /\ NoCursor \in Cursor
BY DEF CursorAt, NoCursor, Cursor

\* Summarising a row changes what it shows, not what it holds.
LEMMA SummarisedFollows ==
    ASSUME NEW row, RowOK(row), NEW cursors, CursorsOK(row, cursors)
    PROVE  /\ Follows(row, Summarised(row, cursors))
           /\ Summarised(row, cursors).revision = row.revision
<1>. DEFINE known == {c \in Clients : cursors[c].exists}
            heights == {cursors[c].applied : c \in known}
            slowest == Min(heights)
<1>1. CASE known = {}
    BY <1>1 DEF Summarised, Follows, RowOK
<1>2. CASE known # {}
  <2>1. heights # {} /\ heights \subseteq 0 .. row.revision
    BY <1>2 DEF CursorsOK, Cursor, RowOK, Snapshot
  <2>2. slowest \in heights
    <3>1. heights \subseteq Nat
      BY <2>1
    <3>. HIDE DEF heights
    <3>. QED BY <2>1, <3>1, MinNat
  <2>3. slowest \in Nat /\ slowest <= row.revision
    <3>. HIDE DEF slowest, heights
    <3>. QED BY <2>1, <2>2 DEF RowOK, Snapshot
  <2>. DEFINE behind == \E c \in known : cursors[c].failed > 0
              status == CASE slowest >= row.revision -> "synced"
                          [] slowest < row.revision /\ behind -> "error"
                          [] OTHER -> "pending"
  <2>4. Summarised(row, cursors) =
            [row EXCEPT !.applied = slowest, !.status = status]
    BY <1>2 DEF Summarised
  <2>5. status \in {"synced", "error", "pending"}
    <3>. HIDE DEF slowest, behind
    <3>. QED BY <2>3 DEF RowOK, Snapshot
  <2>. HIDE DEF slowest, status
  <2>. QED BY <2>3, <2>4, <2>5 DEF Follows, RowOK, Snapshot, Statuses
<1>. QED BY <1>1, <1>2

LEMMA AdoptedFollows ==
    ASSUME NEW row, RowOK(row), NEW c \in Clients
    PROVE  Follows(row, Adopted(row, c)) /\ Adopted(row, c).status # "none"
<1>1. CASE row.status = "none"
    BY <1>1 DEF Follows, RowOK, Adopted, Snapshot, Statuses
<1>2. CASE row.status # "none" /\ row.owner = NoClient
  <2>. DEFINE adopted == [row EXCEPT !.owner = c, !.applied = 0, !.status = "pending"]
  <2>1. Adopted(row, c) = adopted
    BY <1>2 DEF Adopted
  <2>2. adopted \in Snapshot /\ adopted.status = "pending"
    BY DEF RowOK, Snapshot, Statuses
  <2>3. adopted.applied = 0 /\ adopted.revision = row.revision /\ row.revision \in Nat
    BY DEF RowOK, Snapshot
  <2>. HIDE DEF adopted
  <2>. QED BY <2>1, <2>2, <2>3 DEF Follows, RowOK
<1>3. CASE row.status # "none" /\ row.owner # NoClient
    BY <1>3 DEF Follows, RowOK, Adopted, Snapshot, Statuses
<1>. QED BY <1>1, <1>2, <1>3

LEMMA SourceRecoveredFollows ==
    ASSUME NEW row, RowOK(row)
    PROVE  Follows(row, SourceRecovered(row))
<1>1. CASE row.status \in {"protected", "partial"}
  <2>. DEFINE status == IF row.revision > row.applied THEN "pending" ELSE "synced"
              recovered == [row EXCEPT !.status = status]
  <2>1. SourceRecovered(row) = recovered
    BY <1>1 DEF SourceRecovered
  <2>2. recovered \in Snapshot /\ recovered.status # "none"
    BY DEF RowOK, Snapshot, Statuses
  <2>3. recovered.applied = row.applied /\ recovered.revision = row.revision
    BY DEF RowOK, Snapshot
  <2>. HIDE DEF recovered
  <2>. QED BY <2>1, <2>2, <2>3 DEF Follows, RowOK
<1>2. CASE row.status \notin {"protected", "partial"}
    BY <1>2 DEF SourceRecovered, Follows, RowOK
<1>. QED BY <1>1, <1>2

\* Marking a row partial or protected keeps its revisions.
LEMMA MarkedFollows ==
    ASSUME NEW row, RowOK(row), NEW status \in Statuses \ {"none"}
    PROVE  Follows(row, [row EXCEPT !.status = status])
<1>. DEFINE marked == [row EXCEPT !.status = status]
<1>1. marked \in Snapshot /\ marked.status # "none"
    BY DEF RowOK, Snapshot, Statuses
<1>2. marked.applied = row.applied /\ marked.revision = row.revision
    BY DEF RowOK, Snapshot
<1>3. Follows(row, marked)
  <2>. HIDE DEF marked
  <2>. QED BY <1>1, <1>2 DEF Follows, RowOK
<1>. QED BY <1>3

LEMMA UploadedFollows ==
    ASSUME NEW row, RowOK(row), NEW c \in Clients, NEW claimed, NEW withConfig
    PROVE  Follows(row, Uploaded(row, c, claimed, withConfig))
<1>. DEFINE new == IF claimed
                   THEN [status |-> "pending", revision |-> 1, applied |-> 0, owner |-> c]
                   ELSE [status |-> "synced", revision |-> 1, applied |-> 1, owner |-> c]
            fresh == IF row.status = "none" THEN new ELSE row
            status == IF withConfig /\ ~claimed /\ fresh.revision <= fresh.applied
                      THEN "synced" ELSE fresh.status
            taken == [fresh EXCEPT !.owner = c, !.status = status]
<1>1. Follows(row, fresh) /\ fresh.status # "none"
    BY DEF Follows, RowOK, Snapshot, Statuses
<1>2. Uploaded(row, c, claimed, withConfig) = taken
  <2>1. fresh \in Snapshot
    BY <1>1 DEF Follows, RowOK
  <2>2. Uploaded(row, c, claimed, withConfig) =
            [fresh EXCEPT !.owner = c,
                          !.status = IF withConfig /\ ~claimed
                                            /\ fresh.revision <= fresh.applied
                                     THEN "synced" ELSE @]
    BY DEF Uploaded
  <2>. HIDE DEF fresh
  <2>. QED BY <2>1, <2>2 DEF Snapshot
<1>. HIDE DEF fresh
<1>3. status \in Statuses \ {"none"}
    BY <1>1 DEF Follows, RowOK, Snapshot, Statuses
<1>. HIDE DEF status
<1>4. taken \in Snapshot /\ taken.status # "none"
    BY <1>1, <1>3 DEF Follows, RowOK, Snapshot
<1>5. taken.applied = fresh.applied /\ taken.revision = fresh.revision
    BY <1>1 DEF Follows, RowOK, Snapshot
<1>. HIDE DEF taken
<1>6. Follows(fresh, taken)
    BY <1>1, <1>4, <1>5 DEF Follows, RowOK
<1>. QED BY <1>1, <1>2, <1>6, FollowsTransitive

LEMMA RegisteredOK ==
    ASSUME NEW row, RowOK(row), NEW cursors, CursorsOK(row, cursors), NEW c
    PROVE  LET registered == Registered(row, cursors, c)
           IN  /\ CursorsOK(row, registered)
               /\ \A d \in Clients :
                    \/ registered[d] = cursors[d]
                    \/ /\ ~cursors[d].exists
                       /\ registered[d] = CursorAt(row.applied)
                          \/ registered[d] = CursorAt(row.revision)
<1>. DEFINE registered == Registered(row, cursors, c)
<1>1. \A d \in Clients :
            \/ registered[d] = cursors[d]
            \/ /\ ~cursors[d].exists
               /\ registered[d] = CursorAt(row.applied)
                  \/ registered[d] = CursorAt(row.revision)
    BY DEF Registered
<1>2. registered = [d \in Clients |-> registered[d]]
    BY DEF Registered
<1>. HIDE DEF registered
<1>3. \A d \in Clients : registered[d] \in Cursor /\ registered[d].applied <= row.revision
                         /\ (~registered[d].exists => registered[d].applied = 0)
  <2>1. \A r \in Nat : CursorAt(r) \in Cursor /\ CursorAt(r).applied = r /\ CursorAt(r).exists
    <3>1. \A r : CursorAt(r).applied = r /\ CursorAt(r).exists = TRUE
      BY DEF CursorAt
    <3>. QED BY <3>1, CursorType
  <2>2. row.applied \in Nat /\ row.revision \in Nat /\ row.applied <= row.revision
    BY DEF RowOK, Snapshot
  <2>. QED BY <1>1, <2>1, <2>2 DEF CursorsOK
<1>4. CursorsOK(row, registered)
    BY <1>2, <1>3 DEF CursorsOK
<1>. QED BY <1>1, <1>4 DEF registered

LEMMA CursorsStayOK ==
    ASSUME NEW old, NEW new, Follows(old, new), NEW cursors, CursorsOK(old, cursors)
    PROVE  CursorsOK(new, cursors)
BY DEF Follows, CursorsOK, Cursor, RowOK, Snapshot

-----------------------------------------------------------------------------
(* One exchange.                                                            *)

PortalOK ==
    /\ bound \subseteq Groups
    /\ snapshot \in [Groups -> Snapshot]
    /\ clientSync \in [Groups -> [Clients -> Cursor]]
    /\ \A g \in Groups : RowOK(snapshot[g]) /\ CursorsOK(snapshot[g], clientSync[g])

LEMMA PortalOKFromInvariant == TypeOK /\ RowsConsistent => PortalOK
BY DEF TypeOK, RowsConsistent, PortalOK, RowOK, CursorsOK

\* The rows after portal discovery, and the cursors it created.
LEMMA DiscoveryFollows ==
    ASSUME PortalOK, NEW q \in ExchangeRequest, NEW g \in Groups
    PROVE  /\ Follows(snapshot[g], DiscoveredRows(q)[g])
           /\ CursorsOK(DiscoveredRows(q)[g], ExchangedSync(q)[g])
           /\ \A d \in Clients :
                \/ ExchangedSync(q)[g][d] = clientSync[g][d]
                \/ /\ ~clientSync[g][d].exists
                   /\ \E r \in {DiscoveredRows(q)[g].applied, DiscoveredRows(q)[g].revision} :
                        ExchangedSync(q)[g][d] = CursorAt(r)
<1>. DEFINE adopted == Adopted(snapshot[g], q.from)
            registered == Registered(adopted, clientSync[g], q.from)
<1>1. q.from \in Clients /\ RowOK(snapshot[g]) /\ CursorsOK(snapshot[g], clientSync[g])
    BY DEF PortalOK, ExchangeRequest
<1>2. Follows(snapshot[g], adopted) /\ RowOK(adopted)
    BY <1>1, AdoptedFollows DEF Follows
<1>3. CursorsOK(adopted, clientSync[g])
    BY <1>1, <1>2, CursorsStayOK
<1>4. /\ CursorsOK(adopted, registered)
      /\ \A d \in Clients :
            \/ registered[d] = clientSync[g][d]
            \/ /\ ~clientSync[g][d].exists
               /\ registered[d] = CursorAt(adopted.applied)
                  \/ registered[d] = CursorAt(adopted.revision)
    BY <1>2, <1>3, RegisteredOK
<1>5. ExchangedSync(q)[g] = IF g \in ClientPortal(q) THEN registered ELSE clientSync[g]
    BY DEF ExchangedSync
<1>. HIDE DEF adopted, registered
<1>6. CASE g \in ClientPortal(q)
  <2>1. DiscoveredRows(q)[g] = adopted
    BY <1>6 DEF DiscoveredRows, adopted
  <2>. QED BY <1>2, <1>4, <1>5, <1>6, <2>1
<1>7. CASE g \notin ClientPortal(q)
  <2>1. DiscoveredRows(q)[g] = snapshot[g]
    BY <1>7 DEF DiscoveredRows
  <2>2. Follows(snapshot[g], snapshot[g])
    BY <1>1 DEF Follows
  <2>. QED BY <1>1, <1>5, <1>7, <2>1, <2>2
<1>. QED BY <1>6, <1>7

\* What the sources and the items of an exchange make of a row: it is left,
\* marked or recovered, and then possibly taken over.
LEMMA OfferedCases ==
    ASSUME NEW q, NEW g \in Groups
    PROVE  \E row \in {DiscoveredRows(q)[g], SourceRecovered(DiscoveredRows(q)[g]),
                       [DiscoveredRows(q)[g] EXCEPT !.status = "partial"]} :
             LET taken == Uploaded(row, q.from, g \in bound, g \in q.configs)
             IN  \/ UploadedRows(q)[g] = row
                 \/ /\ g \in Offered(q)
                    /\ UploadedRows(q)[g] \in {taken, [taken EXCEPT !.status = "partial"]}
<1>. DEFINE found == DiscoveredRows(q)[g]
            rows == {found, SourceRecovered(found), [found EXCEPT !.status = "partial"]}
            taken(row) == Uploaded(row, q.from, g \in bound, g \in q.configs)
<1>1. SourceMarkedRows(q)[g] \in rows
    BY DEF SourceMarkedRows
<1>2. ItemRow(q, g) \in rows
    BY <1>1 DEF ItemRow
<1>3. \/ UploadedRows(q)[g] = SourceMarkedRows(q)[g]
      \/ /\ g \in Offered(q)
         /\ UploadedRows(q)[g] \in {taken(ItemRow(q, g)),
                                   [taken(ItemRow(q, g)) EXCEPT !.status = "partial"]}
    BY DEF UploadedRows
<1>. HIDE DEF rows
<1>4. CASE UploadedRows(q)[g] = SourceMarkedRows(q)[g]
    BY <1>1, <1>4 DEF rows
<1>5. CASE /\ g \in Offered(q)
           /\ UploadedRows(q)[g] \in {taken(ItemRow(q, g)),
                                     [taken(ItemRow(q, g)) EXCEPT !.status = "partial"]}
    BY <1>2, <1>5 DEF rows
<1>. QED BY <1>3, <1>4, <1>5

\* The revision an exchange hands out is the one the row has when it ends.
LEMMA ExchangeFollows ==
    ASSUME PortalOK, NEW q \in ExchangeRequest, NEW g \in Groups
    PROVE  /\ Follows(snapshot[g], UploadedRows(q)[g])
           /\ Follows(DiscoveredRows(q)[g], UploadedRows(q)[g])
           /\ Follows(UploadedRows(q)[g], HeartbeatRows(q)[g])
           /\ Follows(HeartbeatRows(q)[g], RowsAfterExchange(q)[g])
           /\ CursorsOK(HeartbeatRows(q)[g], SyncAfterExchange(q)[g])
           /\ CursorsOK(RowsAfterExchange(q)[g], SyncAfterExchange(q)[g])
           /\ \A d \in Clients :
                \/ /\ SyncAfterExchange(q)[g][d].exists = clientSync[g][d].exists
                   /\ SyncAfterExchange(q)[g][d].applied = clientSync[g][d].applied
                   /\ SyncAfterExchange(q)[g][d].start = clientSync[g][d].start
                \/ /\ ~clientSync[g][d].exists
                   /\ SyncAfterExchange(q)[g][d].exists
                   /\ SyncAfterExchange(q)[g][d].applied
                        = SyncAfterExchange(q)[g][d].start
<1>1. q.from \in Clients
    BY DEF ExchangeRequest
<1>2. RowOK(DiscoveredRows(q)[g])
    BY DiscoveryFollows DEF Follows
<1>3. Follows(DiscoveredRows(q)[g], UploadedRows(q)[g])
  <2>. DEFINE found == DiscoveredRows(q)[g]
              taken(row) == Uploaded(row, q.from, g \in bound, g \in q.configs)
  <2>1. PICK row \in {found, SourceRecovered(found), [found EXCEPT !.status = "partial"]} :
            UploadedRows(q)[g] \in {row, taken(row), [taken(row) EXCEPT !.status = "partial"]}
    BY OfferedCases
  <2>. HIDE DEF found
  <2>2. Follows(found, row) /\ RowOK(row)
    <3>1. RowOK(found)
      BY <1>2 DEF found
    <3>2. Follows(found, [found EXCEPT !.status = "partial"])
      BY <3>1, MarkedFollows DEF Statuses
    <3>3. Follows(found, SourceRecovered(found))
      BY <3>1, SourceRecoveredFollows
    <3>4. Follows(found, found)
      BY <3>1 DEF Follows
    <3>. QED BY <2>1, <3>2, <3>3, <3>4 DEF Follows
  <2>3. Follows(row, taken(row)) /\ RowOK(taken(row))
    BY <1>1, <2>2, UploadedFollows DEF Follows
  <2>. HIDE DEF taken
  <2>4. Follows(taken(row), [taken(row) EXCEPT !.status = "partial"])
    BY <2>3, MarkedFollows DEF Statuses
  <2>. QED BY <2>1, <2>2, <2>3, <2>4, FollowsTransitive DEF found
<1>4. Follows(snapshot[g], UploadedRows(q)[g])
    BY <1>3, DiscoveryFollows, FollowsTransitive
<1>5. Follows(UploadedRows(q)[g], HeartbeatRows(q)[g])
  <2>. DEFINE row == UploadedRows(q)[g]
  <2>1. HeartbeatRows(q)[g] = [row EXCEPT !.status = "protected"] \/ HeartbeatRows(q)[g] = row
    BY DEF HeartbeatRows
  <2>2. RowOK(row)
    BY <1>4 DEF Follows
  <2>. HIDE DEF row
  <2>3. Follows(row, [row EXCEPT !.status = "protected"]) /\ Follows(row, row)
    BY <2>2, MarkedFollows DEF Statuses, Follows
  <2>. QED BY <2>1, <2>3 DEF row
<1>6. CursorsOK(HeartbeatRows(q)[g], ExchangedSync(q)[g])
    BY <1>3, <1>5, DiscoveryFollows, CursorsStayOK
<1>. DEFINE before == ExchangedSync(q)[g]
            after == SyncAfterExchange(q)[g]
            row == HeartbeatRows(q)[g]
<1>7. after \in [Clients -> Cursor] /\ \A d \in Clients :
            after[d] = before[d] \/ after[d] = [before[d] EXCEPT !.failed = row.revision]
  <2>1. after = before \/ after = [before EXCEPT ![q.from].failed = row.revision]
    BY DEF SyncAfterExchange
  <2>2. before \in [Clients -> Cursor] /\ row.revision \in Nat
    BY <1>5, <1>6 DEF CursorsOK, Follows, RowOK, Snapshot
  <2>. HIDE DEF before, after, row
  <2>3. \A d \in Clients : [before[d] EXCEPT !.failed = row.revision] \in Cursor
    BY <2>2 DEF Cursor
  <2>. QED BY <1>1, <2>1, <2>2, <2>3
<1>8. \A d \in Clients : /\ after[d].exists = before[d].exists
                         /\ after[d].applied = before[d].applied
                         /\ after[d].start = before[d].start
  <2>1. before \in [Clients -> Cursor]
    BY <1>6 DEF CursorsOK
  <2>. HIDE DEF before, after, row
  <2>. QED BY <1>7, <2>1 DEF Cursor
<1>9. CursorsOK(row, after)
  <2>. HIDE DEF before, after, row
  <2>. QED BY <1>6, <1>7, <1>8 DEF CursorsOK, before, row
<1>10. Follows(row, RowsAfterExchange(q)[g])
  <2>1. RowsAfterExchange(q)[g] = Summarised(row, after) \/ RowsAfterExchange(q)[g] = row
    BY DEF RowsAfterExchange
  <2>2. RowOK(row) /\ Follows(row, row)
    BY <1>5 DEF Follows
  <2>. HIDE DEF after, row
  <2>. QED BY <1>9, <2>1, <2>2, SummarisedFollows
<1>11. CursorsOK(RowsAfterExchange(q)[g], after)
    BY <1>9, <1>10, CursorsStayOK
<1>12. \A d \in Clients :
            \/ before[d] = clientSync[g][d]
            \/ /\ ~clientSync[g][d].exists
               /\ before[d].exists /\ before[d].applied = before[d].start
  <2>1. \A r : CursorAt(r).exists /\ CursorAt(r).applied = CursorAt(r).start
    BY DEF CursorAt
  <2>. QED BY <2>1, DiscoveryFollows
<1>. HIDE DEF before, after
<1>13. \A d \in Clients :
            \/ /\ after[d].exists = clientSync[g][d].exists
               /\ after[d].applied = clientSync[g][d].applied
               /\ after[d].start = clientSync[g][d].start
            \/ /\ ~clientSync[g][d].exists
               /\ after[d].exists /\ after[d].applied = after[d].start
    BY <1>8, <1>12
<1>. QED BY <1>3, <1>4, <1>5, <1>9, <1>10, <1>11, <1>13 DEF row, after

LEMMA HandedOutIsCurrent ==
    ASSUME PortalOK, NEW q \in ExchangeRequest
    PROVE  \/ HandedOut(q) = NoChange
           \/ /\ HandedOut(q) \in Change
              /\ HandedOut(q).group \in Scope(q)
              /\ HandedOut(q).revision = UploadedRows(q)[HandedOut(q).group].revision
<1>. DEFINE within == Selected(q) \intersect Scope(q)
            g == CHOOSE x \in within : TRUE
<1>1. CASE within = {}
    BY <1>1 DEF HandedOut
<1>2. CASE within # {}
  <2>1. g \in within
    BY <1>2
  <2>2. g \in Groups /\ g \in Scope(q)
    <3>1. within \subseteq Groups /\ within \subseteq Scope(q)
      BY DEF Scope, PortalOK
    <3>. QED BY <2>1, <3>1
  <2>3. UploadedRows(q)[g].revision \in Nat
    BY <2>2, ExchangeFollows DEF Follows, RowOK, Snapshot
  <2>4. HandedOut(q) = [group |-> g, revision |-> UploadedRows(q)[g].revision,
                        manual |-> g \in ManualPulls(q)]
    BY <1>2 DEF HandedOut
  <2>. HIDE DEF g
  <2>5. (g \in ManualPulls(q)) \in BOOLEAN
    OBVIOUS
  <2>. QED BY <2>2, <2>3, <2>4, <2>5 DEF Change
<1>. QED BY <1>1, <1>2

-----------------------------------------------------------------------------
(* What one step does to the rows, the cursors and the copies.              *)

\* The rows stay consistent and no revision is taken back.
PortalStep ==
    /\ PortalOK'
    /\ \A g \in Groups : snapshot'[g].revision >= snapshot[g].revision

\* No existing cursor moves.
CursorsKept ==
    \A g \in Groups, c \in Clients :
        LET old == clientSync[g][c]
            new == clientSync'[g][c]
        IN  \/ new.exists = old.exists /\ new.applied = old.applied
                /\ new.start = old.start
            \/ ~old.exists /\ new.exists /\ new.applied = new.start

\* An exchange gives a group its first revision, and no other one.
FirstRevisionAtMost ==
    \A g \in Groups :
        \/ snapshot'[g].revision = snapshot[g].revision
        \/ snapshot[g].revision = 0 /\ snapshot'[g].revision = 1

LEMMA ExchangeStep ==
    ASSUME PortalOK, NEW q \in ExchangeRequest, bound' = bound,
           snapshot' = RowsAfterExchange(q), clientSync' = SyncAfterExchange(q)
    PROVE  PortalStep /\ CursorsKept /\ FirstRevisionAtMost
<1>1. \A g \in Groups : Follows(snapshot[g], RowsAfterExchange(q)[g])
    BY ExchangeFollows, FollowsTransitive
<1>2. \A g \in Groups :
            CursorsOK(RowsAfterExchange(q)[g], SyncAfterExchange(q)[g])
    BY ExchangeFollows
<1>3. snapshot' \in [Groups -> Snapshot]
  <2>1. RowsAfterExchange(q) = [g \in Groups |-> RowsAfterExchange(q)[g]]
    BY DEF RowsAfterExchange
  <2>2. \A g \in Groups : RowsAfterExchange(q)[g] \in Snapshot
    BY <1>1 DEF Follows, RowOK
  <2>. QED BY <2>1, <2>2
<1>4. clientSync' \in [Groups -> [Clients -> Cursor]]
  <2>1. SyncAfterExchange(q) = [g \in Groups |-> SyncAfterExchange(q)[g]]
    BY DEF SyncAfterExchange
  <2>2. \A g \in Groups : SyncAfterExchange(q)[g] \in [Clients -> Cursor]
    BY <1>2 DEF CursorsOK
  <2>. QED BY <2>1, <2>2
<1>5. \A g \in Groups : RowOK(snapshot'[g]) /\ CursorsOK(snapshot'[g], clientSync'[g])
    BY <1>1, <1>2 DEF Follows
<1>6. \A g \in Groups : snapshot'[g].revision >= snapshot[g].revision
    BY <1>1 DEF Follows, RowOK, Snapshot, PortalOK
<1>7. CursorsKept
    BY ExchangeFollows DEF CursorsKept
<1>8. FirstRevisionAtMost
    BY <1>1 DEF FirstRevisionAtMost, Follows
<1>. QED BY <1>3, <1>4, <1>5, <1>6, <1>7, <1>8 DEF PortalStep, PortalOK

\* A pull sets one cursor back, below its group's revision.
CursorReopened(g, c) ==
    LET old == clientSync[g][c]
        new == clientSync'[g][c]
    IN  /\ new.exists /\ new.pulling
        /\ \/ old.exists /\ new.start = old.start /\ new.applied <= old.applied
           \/ ~old.exists /\ new.start = new.applied
        /\ \/ old.exists /\ new.applied = old.applied
           \/ new.applied = snapshot[g].revision - 1

\* An acknowledgement moves one cursor forward, up to the revision it names.
CursorConfirmed(g, c, revision) ==
    LET old == clientSync[g][c]
        new == clientSync'[g][c]
    IN  /\ old.exists /\ new.exists /\ new.start = old.start
        /\ \/ new.applied = old.applied
           \/ new.applied > old.applied /\ new.applied = revision

CursorsKeptBut(g, c) ==
    \A h \in Groups, d \in Clients :
        <<h, d>> # <<g, c>> => clientSync'[h][d] = clientSync[h][d]

\* One cursor of one group is written, and the row summarised.
LEMMA OneCursorStep ==
    ASSUME PortalOK, NEW g \in Groups, NEW c \in Clients, NEW cursor \in Cursor,
           cursor.exists, cursor.applied <= snapshot[g].revision, bound' = bound,
           clientSync' = [clientSync EXCEPT ![g] = [@ EXCEPT ![c] = cursor]],
           snapshot' = [snapshot EXCEPT ![g] =
                Summarised(snapshot[g], [clientSync[g] EXCEPT ![c] = cursor])]
    PROVE  /\ PortalStep
           /\ CursorsKeptBut(g, c)
           /\ clientSync'[g][c] = cursor
           /\ \A h \in Groups : snapshot'[h].revision = snapshot[h].revision
<1>. DEFINE cursors == [clientSync[g] EXCEPT ![c] = cursor]
<1>1. CursorsOK(snapshot[g], cursors)
    BY DEF PortalOK, CursorsOK
<1>2. Follows(snapshot[g], Summarised(snapshot[g], cursors))
      /\ Summarised(snapshot[g], cursors).revision = snapshot[g].revision
    BY <1>1, SummarisedFollows DEF PortalOK
<1>3. clientSync' = [clientSync EXCEPT ![g] = cursors]
    BY DEF PortalOK
<1>4. snapshot' = [snapshot EXCEPT ![g] = Summarised(snapshot[g], cursors)]
    OBVIOUS
<1>5. clientSync'[g][c] = cursor
    BY DEF PortalOK
<1>6. CursorsKeptBut(g, c)
    BY DEF PortalOK, CursorsKeptBut
<1>. HIDE DEF cursors
<1>7. CursorsOK(Summarised(snapshot[g], cursors), cursors)
    BY <1>1, <1>2, CursorsStayOK
<1>8. \A h \in Groups : snapshot'[h].revision = snapshot[h].revision
    BY <1>2, <1>4 DEF PortalOK
<1>9. PortalOK'
  <2>. DEFINE row == Summarised(snapshot[g], cursors)
  <2>1. RowOK(row) /\ CursorsOK(row, cursors)
    BY <1>2, <1>7 DEF Follows
  <2>2. row \in Snapshot /\ cursors \in [Clients -> Cursor]
    BY <2>1 DEF RowOK, CursorsOK
  <2>. HIDE DEF row
  <2>3. snapshot' = [snapshot EXCEPT ![g] = row]
    BY <1>4 DEF row
  <2>4. snapshot' \in [Groups -> Snapshot] /\ clientSync' \in [Groups -> [Clients -> Cursor]]
    BY <1>3, <2>2, <2>3 DEF PortalOK
  <2>5. \A h \in Groups : RowOK(snapshot'[h]) /\ CursorsOK(snapshot'[h], clientSync'[h])
    BY <1>3, <2>1, <2>3 DEF PortalOK
  <2>. QED BY <2>4, <2>5 DEF PortalOK
<1>10. \A h \in Groups : snapshot[h].revision \in Nat
    BY DEF PortalOK, Snapshot
<1>. QED BY <1>5, <1>6, <1>8, <1>9, <1>10 DEF PortalStep

LEMMA AcknowledgeStep ==
    ASSUME PortalOK, NEW q \in AckRequest, bound' = bound,
           \/ AcknowledgeClaimed(q)
           \/ AcknowledgeUnclaimed(q)
           \/ UNCHANGED <<snapshot, clientSync>>
    PROVE  /\ PortalStep
           /\ CursorsKeptBut(q.group, q.from)
           /\ \/ clientSync' = clientSync
              \/ CursorConfirmed(q.group, q.from, q.revision)
           /\ \A g \in Groups : snapshot'[g].revision = snapshot[g].revision
<1>. DEFINE g == q.group
            c == q.from
            row == snapshot[g]
            cursor == clientSync[g][c]
<1>1. g \in Groups /\ c \in Clients /\ q.revision \in Nat
    BY DEF AckRequest
<1>2. row \in Snapshot /\ cursor \in Cursor
    BY <1>1 DEF PortalOK
<1>3. \A h \in Groups : snapshot[h].revision \in Nat
    BY DEF PortalOK, Snapshot
<1>4. CASE AcknowledgeClaimed(q)
  <2>. DEFINE higher == IF q.revision > cursor.applied THEN q.revision
                        ELSE cursor.applied
              pulling == cursor.pulling /\ q.revision < row.revision
              new == [cursor EXCEPT !.applied = higher, !.pulling = pulling,
                                    !.failed = 0]
  <2>1. /\ cursor.exists
        /\ q.revision <= row.revision
        /\ clientSync' = [clientSync EXCEPT ![g] = [@ EXCEPT ![c] = new]]
        /\ snapshot' = [snapshot EXCEPT ![g] =
                Summarised(snapshot[g], [clientSync[g] EXCEPT ![c] = new])]
    BY <1>1, <1>4 DEF AcknowledgeClaimed, Acknowledged, PortalOK
  <2>2. higher \in Nat /\ higher <= row.revision
    BY <1>1, <1>2, <2>1 DEF Cursor, PortalOK, CursorsOK
  <2>3. pulling \in BOOLEAN
    OBVIOUS
  <2>. HIDE DEF pulling
  <2>4. new \in Cursor /\ new.exists /\ new.applied = higher /\ new.start = cursor.start
    BY <1>2, <2>1, <2>2, <2>3 DEF Cursor
  <2>. HIDE DEF new
  <2>5. /\ PortalStep
        /\ CursorsKeptBut(g, c)
        /\ clientSync'[g][c] = new
        /\ \A h \in Groups : snapshot'[h].revision = snapshot[h].revision
    <3>. HIDE DEF g, c, higher
    <3>. QED BY <1>1, <2>1, <2>2, <2>4, OneCursorStep DEF row
  <2>6. CursorConfirmed(g, c, q.revision)
    BY <2>1, <2>4, <2>5 DEF CursorConfirmed
  <2>. QED BY <2>5, <2>6
<1>5. CASE AcknowledgeUnclaimed(q)
  <2>. DEFINE new == Completed(row, c)
  <2>1. /\ row.status # "none" /\ clientSync' = clientSync
        /\ \/ q.revision = row.revision /\ snapshot' = [snapshot EXCEPT ![g] = new]
           \/ snapshot' = snapshot
    BY <1>5 DEF AcknowledgeUnclaimed
  <2>2. CASE q.revision = row.revision /\ snapshot' = [snapshot EXCEPT ![g] = new]
    <3>1. /\ new \in Snapshot
          /\ new.status = "synced"
          /\ new.applied = q.revision /\ new.revision = row.revision
      BY <1>1, <1>2, <2>2 DEF Completed, Snapshot, Statuses
    <3>. HIDE DEF new
    <3>2. Follows(row, new)
      BY <1>1, <2>2, <3>1 DEF Follows, RowOK
    <3>3. CursorsOK(new, clientSync[g])
      BY <1>1, <3>2, CursorsStayOK DEF PortalOK
    <3>4. \A h \in Groups : snapshot'[h].revision = snapshot[h].revision
      BY <1>1, <2>2, <3>1 DEF PortalOK
    <3>5. snapshot' \in [Groups -> Snapshot]
      BY <2>2, <3>1 DEF PortalOK
    <3>6. \A h \in Groups : RowOK(snapshot'[h]) /\ CursorsOK(snapshot'[h], clientSync[h])
      BY <1>1, <2>2, <3>2, <3>3 DEF PortalOK, Follows
    <3>. QED BY <1>3, <2>1, <3>4, <3>5, <3>6 DEF PortalStep, PortalOK, CursorsKeptBut
  <2>3. CASE snapshot' = snapshot
    BY <1>3, <2>1, <2>3 DEF PortalStep, PortalOK, CursorsKeptBut
  <2>. QED BY <2>1, <2>2, <2>3
<1>6. CASE UNCHANGED <<snapshot, clientSync>>
    BY <1>3, <1>6 DEF PortalStep, PortalOK, CursorsKeptBut
<1>. QED BY <1>4, <1>5, <1>6

LEMMA ReopenStep ==
    ASSUME PortalOK, NEW g \in Groups, NEW c \in Clients, bound' = bound, Pullable(g),
           LET cursors == [clientSync[g] EXCEPT
                                ![c] = Reopened(@, snapshot[g].revision)]
           IN  /\ clientSync' = [clientSync EXCEPT ![g] = cursors]
               /\ snapshot' = [snapshot EXCEPT ![g] = Summarised(@, cursors)]
    PROVE  /\ PortalStep
           /\ CursorsKeptBut(g, c)
           /\ CursorReopened(g, c)
           /\ \A h \in Groups : snapshot'[h].revision = snapshot[h].revision
<1>. DEFINE old == clientSync[g][c]
            revision == snapshot[g].revision
            new == Reopened(old, revision)
<1>1. old \in Cursor /\ revision \in Nat /\ revision > 0 /\ old.applied <= revision
    BY DEF PortalOK, Pullable, Snapshot, CursorsOK
<1>2. /\ new \in Cursor
      /\ new.exists /\ new.pulling
      /\ new.applied <= revision
      /\ \/ old.exists /\ new.start = old.start /\ new.applied <= old.applied
         \/ ~old.exists /\ new.start = new.applied
      /\ \/ old.exists /\ new.applied = old.applied
         \/ new.applied = revision - 1
  <2>. HIDE DEF old, revision
  <2>. QED BY <1>1 DEF Reopened, Cursor
<1>3. /\ clientSync' = [clientSync EXCEPT ![g] = [@ EXCEPT ![c] = new]]
      /\ snapshot' = [snapshot EXCEPT ![g] =
                Summarised(snapshot[g], [clientSync[g] EXCEPT ![c] = new])]
    BY DEF PortalOK
<1>. HIDE DEF new
<1>4. /\ PortalStep
      /\ CursorsKeptBut(g, c)
      /\ clientSync'[g][c] = new
      /\ \A h \in Groups : snapshot'[h].revision = snapshot[h].revision
    BY <1>2, <1>3, OneCursorStep
<1>5. CursorReopened(g, c)
    BY <1>2, <1>4 DEF CursorReopened
<1>. QED BY <1>4, <1>5

-----------------------------------------------------------------------------
(* The portal's steps preserve the invariant.                               *)

LEMMA InvariantPortalOK == IInv => PortalOK
BY PortalOKFromInvariant DEF IInv

\* What the rows and cursors owe the invariant.
LEMMA PortalStepInvariant ==
    ASSUME IInv, PortalStep, stored' = stored
    PROVE  RowsConsistent' /\ StoredExists'
<1>1. RowsConsistent'
    BY DEF PortalStep, PortalOK, RowsConsistent, RowOK, CursorsOK
<1>2. \A g \in Groups : snapshot[g].revision \in Nat /\ snapshot'[g].revision \in Nat
    BY DEF IInv, TypeOK, Snapshot, PortalStep, PortalOK
<1>3. StoredExists'
  <2>1. SUFFICES ASSUME NEW c \in Clients, NEW g \in Groups
                 PROVE  stored[c][g] <= snapshot'[g].revision
    BY DEF StoredExists
  <2>2. stored[c][g] \in Nat /\ stored[c][g] <= snapshot[g].revision
    BY DEF IInv, TypeOK, StoredExists
  <2>. QED BY <1>2, <2>2 DEF PortalStep
<1>. QED BY <1>1, <1>3

LEMMA DeliveredShrinks ==
    ASSUME NEW q, NEW live \in BOOLEAN, Delivered(q, live)
    PROVE  sent' \subseteq sent /\ late' \subseteq late
BY DEF Delivered

LEMMA HandleExchangeInvariant ==
    ASSUME IInv, NEW live \in BOOLEAN, NEW q \in sent \union late,
           HandleExchange(q, live)
    PROVE  IInv' /\ PortalStep /\ CursorsKept /\ FirstRevisionAtMost
<1>1. q \in ExchangeRequest /\ q.from \in Clients
    BY DEF HandleExchange, IInv, TypeOK, ExchangeRequest, AckRequest, PullRequest
<1>2. PortalOK
    BY InvariantPortalOK
<1>3. UNCHANGED <<bound, blocked, loop, call, pull, pullReply, change, managed,
                  probed, manual, failures, stored>>
    BY DEF HandleExchange
<1>4. sent' \subseteq sent /\ late' \subseteq late
    BY DeliveredShrinks DEF HandleExchange
<1>5. PortalStep /\ CursorsKept /\ FirstRevisionAtMost
  <2>1. CASE UNCHANGED <<snapshot, clientSync>>
    <3>1. \A g \in Groups : snapshot[g].revision \in Nat
      BY <1>2 DEF PortalOK, Snapshot
    <3>. QED BY <1>2, <1>3, <2>1, <3>1 DEF PortalStep, CursorsKept, FirstRevisionAtMost, PortalOK
  <2>2. CASE snapshot' = RowsAfterExchange(q) /\ clientSync' = SyncAfterExchange(q)
    BY <1>1, <1>2, <1>3, <2>2, ExchangeStep
  <2>. QED BY <2>1, <2>2 DEF HandleExchange
<1>6. RowsConsistent' /\ StoredExists'
    BY <1>3, <1>5, PortalStepInvariant
<1>7. PICK answer \in ExchangeReply :
            /\ answer.change \in Change =>
                    /\ stored[q.from][answer.change.group] <= answer.change.revision
                    /\ answer.change.revision <= snapshot'[answer.change.group].revision
            /\ Answer(q, live, answer)
  <2>1. CASE Answer(q, live, [kind |-> "exchange", blocked |-> TRUE,
                              scope |-> {}, change |-> NoChange])
    <3>1. [kind |-> "exchange", blocked |-> TRUE, scope |-> {}, change |-> NoChange]
                \in ExchangeReply
      BY DEF ExchangeReply
    <3>2. NoChange \notin Change
      BY ConstantsAssumption DEF NoChange, Change
    <3>. QED BY <2>1, <3>1, <3>2
  <2>2. CASE /\ snapshot' = RowsAfterExchange(q)
             /\ Answer(q, live, [kind |-> "exchange", blocked |-> FALSE,
                                 scope |-> Scope(q), change |-> HandedOut(q)])
    <3>. DEFINE change1 == HandedOut(q)
                answer == [kind |-> "exchange", blocked |-> FALSE,
                           scope |-> Scope(q), change |-> change1]
    <3>1. Scope(q) \subseteq Groups
      BY <1>2 DEF Scope, PortalOK
    <3>2. \/ change1 = NoChange
          \/ /\ change1 \in Change
             /\ change1.revision = UploadedRows(q)[change1.group].revision
      BY <1>1, <1>2, HandedOutIsCurrent
    <3>3. ASSUME change1 \in Change
          PROVE  /\ stored[q.from][change1.group] <= change1.revision
                 /\ change1.revision <= snapshot'[change1.group].revision
      <4>. DEFINE g == change1.group
      <4>1. g \in Groups /\ change1.revision = UploadedRows(q)[g].revision
        BY <3>2, <3>3, ConstantsAssumption DEF Change, NoChange
      <4>2. /\ Follows(snapshot[g], UploadedRows(q)[g])
            /\ Follows(UploadedRows(q)[g], HeartbeatRows(q)[g])
            /\ Follows(HeartbeatRows(q)[g], snapshot'[g])
        BY <1>1, <1>2, <2>2, <4>1, ExchangeFollows
      <4>3. /\ stored[q.from][g] \in Nat /\ stored[q.from][g] <= snapshot[g].revision
            /\ snapshot[g].revision \in Nat
        BY <1>1, <4>1 DEF IInv, TypeOK, StoredExists, Snapshot
      <4>. HIDE DEF g, change1
      <4>. QED BY <4>1, <4>2, <4>3 DEF Follows, RowOK, Snapshot, g
    <3>. HIDE DEF change1
    <3>4. answer \in ExchangeReply
      BY <3>1, <3>2 DEF ExchangeReply
    <3>5. answer.change = change1
      OBVIOUS
    <3>6. Answer(q, live, answer)
      BY <2>2 DEF change1
    <3>. QED BY <3>3, <3>4, <3>5, <3>6
  <2>. QED BY <2>1, <2>2 DEF HandleExchange
<1>8. \/ reply' = reply
      \/ /\ q \in sent /\ sent' = sent \ {q}
         /\ reply' = [reply EXCEPT ![q.from] = answer]
    BY <1>7 DEF Answer, HandleExchange, InTransit, Delivered
<1>9. answer.kind = "exchange" /\ answer # NoReply
    BY DEF ExchangeReply, NoReply
<1>10. TypeOK'
  <2>1. reply' \in [Clients -> ExchangeReply \union AckReply \union {NoReply}]
    BY <1>8 DEF IInv, TypeOK
  <2>. QED BY <1>3, <1>4, <1>5, <2>1 DEF IInv, TypeOK, PortalStep, PortalOK
<1>11. WaitsForCall'
  <2>1. q \in sent => loop[q.from] = "exchange"
    BY <1>1 DEF IInv, SentIsAwaited, ExchangeRequest
  <2>. QED BY <1>1, <1>3, <1>8, <1>9, <2>1 DEF IInv, WaitsForCall, TypeOK
<1>12. SentIsAwaited'
    BY <1>1, <1>3, <1>4, <1>8
       DEF IInv, TypeOK, SentIsAwaited, ExchangeRequest, AckRequest, PullRequest
<1>13. AnswerIsNewer'
  <2>1. SUFFICES ASSUME NEW c \in Clients, reply'[c].kind = "exchange",
                        reply'[c].change \in Change
                 PROVE  /\ stored[c][reply'[c].change.group] <= reply'[c].change.revision
                        /\ reply'[c].change.revision
                                <= snapshot'[reply'[c].change.group].revision
    BY <1>3 DEF AnswerIsNewer
  <2>2. CASE reply'[c] = reply[c]
    <3>. DEFINE g == reply[c].change.group
    <3>1. g \in Groups /\ reply[c].change.revision \in Nat
      BY <2>1, <2>2 DEF Change
    <3>2. snapshot[g].revision \in Nat /\ snapshot'[g].revision \in Nat
          /\ snapshot'[g].revision >= snapshot[g].revision
      BY <1>5, <3>1, <1>10 DEF IInv, TypeOK, PortalStep, Snapshot
    <3>. QED BY <2>1, <2>2, <3>1, <3>2 DEF IInv, AnswerIsNewer
  <2>3. CASE c = q.from /\ reply'[c] = answer
    BY <1>7, <2>1, <2>3
  <2>. QED BY <1>1, <1>8, <2>2, <2>3 DEF IInv, TypeOK
<1>14. ChangeWasStored' /\ AcksWereStored'
    BY <1>3, <1>4 DEF IInv, ChangeWasStored, AcksWereStored, AckWasStored
<1>15. AcknowledgedWasStored'
    BY <1>3, <1>5 DEF IInv, AcknowledgedWasStored, CursorsKept, PortalStep, PortalOK, Cursor
<1>. QED BY <1>5, <1>6, <1>10, <1>11, <1>12, <1>13, <1>14, <1>15 DEF IInv

\* A row operation leaves what is known about answers already on their way.
LEMMA AnswerStaysNewer ==
    ASSUME IInv, PortalStep, stored' = stored,
           \A c \in Clients : reply'[c] = reply[c] \/ reply'[c].kind # "exchange"
    PROVE  AnswerIsNewer'
<1>1. SUFFICES ASSUME NEW c \in Clients, reply'[c].kind = "exchange",
                      reply'[c].change \in Change
               PROVE  /\ stored[c][reply'[c].change.group] <= reply'[c].change.revision
                      /\ reply'[c].change.revision
                            <= snapshot'[reply'[c].change.group].revision
    BY DEF AnswerIsNewer
<1>2. reply'[c] = reply[c]
    BY <1>1
<1>. DEFINE g == reply[c].change.group
<1>3. g \in Groups /\ reply[c].change.revision \in Nat
    BY <1>1, <1>2 DEF Change
<1>4. snapshot[g].revision \in Nat /\ snapshot'[g].revision \in Nat
      /\ snapshot'[g].revision >= snapshot[g].revision
    BY <1>3 DEF IInv, TypeOK, PortalStep, PortalOK, Snapshot
<1>. QED BY <1>1, <1>2, <1>3, <1>4 DEF IInv, AnswerIsNewer

LEMMA HandleAckInvariant ==
    ASSUME IInv, NEW live \in BOOLEAN, NEW q \in sent \union late,
           HandleAck(q, live)
    PROVE  /\ IInv'
           /\ PortalStep
           /\ q \in AckRequest /\ q.revision <= stored[q.from][q.group]
           /\ CursorsKeptBut(q.group, q.from)
           /\ \/ clientSync' = clientSync
              \/ CursorConfirmed(q.group, q.from, q.revision)
           /\ \A g \in Groups : snapshot'[g].revision = snapshot[g].revision
<1>1. q \in AckRequest /\ q.from \in Clients /\ q.group \in Groups /\ q.revision \in Nat
    BY DEF HandleAck, IInv, TypeOK, ExchangeRequest, AckRequest, PullRequest
<1>2. PortalOK
    BY InvariantPortalOK
<1>3. UNCHANGED <<bound, blocked, loop, call, pull, pullReply, change, managed,
                  probed, manual, failures, stored>>
    BY DEF HandleAck
<1>4. sent' \subseteq sent /\ late' \subseteq late
    BY DeliveredShrinks DEF HandleAck
<1>5. /\ PortalStep
      /\ CursorsKeptBut(q.group, q.from)
      /\ \/ clientSync' = clientSync
         \/ CursorConfirmed(q.group, q.from, q.revision)
      /\ \A g \in Groups : snapshot'[g].revision = snapshot[g].revision
    BY <1>1, <1>2, <1>3, AcknowledgeStep DEF HandleAck
<1>6. RowsConsistent' /\ StoredExists'
    BY <1>3, <1>5, PortalStepInvariant
<1>7. q.revision <= stored[q.from][q.group]
    BY <1>1 DEF IInv, AcksWereStored, AckWasStored, AckRequest
<1>. DEFINE answer == [kind |-> "ack", confirmed |-> Acknowledgeable(q)]
<1>8. \/ reply' = reply
      \/ /\ q \in sent /\ sent' = sent \ {q}
         /\ reply' = [reply EXCEPT ![q.from] = answer]
    BY DEF Answer, HandleAck, InTransit, Delivered
<1>9. answer \in AckReply /\ answer.kind = "ack" /\ answer # NoReply
  <2>1. Acknowledgeable(q) \in BOOLEAN
    BY DEF Acknowledgeable
  <2>. QED BY <2>1 DEF AckReply, NoReply
<1>. HIDE DEF answer
<1>10. TypeOK'
    BY <1>3, <1>4, <1>5, <1>8, <1>9 DEF IInv, TypeOK, PortalStep, PortalOK
<1>11. WaitsForCall'
  <2>1. q \in sent => loop[q.from] = "ack"
    BY <1>1 DEF IInv, SentIsAwaited, AckRequest
  <2>. QED BY <1>1, <1>3, <1>8, <1>9, <2>1 DEF IInv, WaitsForCall, TypeOK
<1>12. SentIsAwaited'
    BY <1>1, <1>3, <1>4, <1>8
       DEF IInv, TypeOK, SentIsAwaited, ExchangeRequest, AckRequest, PullRequest
<1>13. AnswerIsNewer'
  <2>1. \A c \in Clients : reply'[c] = reply[c] \/ reply'[c].kind # "exchange"
    BY <1>1, <1>8, <1>9 DEF IInv, TypeOK
  <2>. QED BY <1>3, <1>5, <2>1, AnswerStaysNewer
<1>14. ChangeWasStored' /\ AcksWereStored'
    BY <1>3, <1>4 DEF IInv, ChangeWasStored, AcksWereStored, AckWasStored
<1>15. AcknowledgedWasStored'
  <2>1. SUFFICES ASSUME NEW g \in Groups, NEW c \in Clients,
                        clientSync'[g][c].exists,
                        clientSync'[g][c].applied > clientSync'[g][c].start
                 PROVE  clientSync'[g][c].applied <= stored[c][g]
    BY <1>3 DEF AcknowledgedWasStored
  <2>2. CASE clientSync'[g][c] = clientSync[g][c]
    BY <2>1, <2>2 DEF IInv, AcknowledgedWasStored
  <2>3. CASE g = q.group /\ c = q.from /\ CursorConfirmed(g, c, q.revision)
    BY <1>7, <2>1, <2>3 DEF IInv, AcknowledgedWasStored, CursorConfirmed
  <2>. QED BY <1>5, <2>2, <2>3 DEF CursorsKeptBut
<1>. QED BY <1>1, <1>5, <1>6, <1>7, <1>10, <1>11, <1>12, <1>13, <1>14, <1>15 DEF IInv

LEMMA HandlePullInvariant ==
    ASSUME IInv, NEW live \in BOOLEAN, NEW q \in sent \union late,
           HandlePull(q, live)
    PROVE  /\ IInv'
           /\ PortalStep
           /\ q \in PullRequest
           /\ CursorsKeptBut(q.group, q.from)
           /\ \/ clientSync' = clientSync
              \/ CursorReopened(q.group, q.from)
           /\ \A g \in Groups : snapshot'[g].revision = snapshot[g].revision
<1>1. q \in PullRequest /\ q.from \in Clients /\ q.group \in Groups
    BY DEF HandlePull, IInv, TypeOK, ExchangeRequest, AckRequest, PullRequest
<1>2. PortalOK
    BY InvariantPortalOK
<1>3. UNCHANGED <<bound, blocked, loop, call, reply, pull, change, managed,
                  probed, manual, failures, stored>>
    BY DEF HandlePull
<1>4. sent' \subseteq sent /\ late' \subseteq late
    BY DeliveredShrinks DEF HandlePull
<1>5. /\ PortalStep
      /\ CursorsKeptBut(q.group, q.from)
      /\ \/ clientSync' = clientSync
         \/ CursorReopened(q.group, q.from)
      /\ \A g \in Groups : snapshot'[g].revision = snapshot[g].revision
  <2>1. CASE UNCHANGED <<snapshot, clientSync>>
    <3>1. \A g \in Groups : snapshot[g].revision \in Nat
      BY <1>2 DEF PortalOK, Snapshot
    <3>. QED BY <1>2, <1>3, <2>1, <3>1 DEF PortalStep, CursorsKeptBut, PortalOK
  <2>2. CASE Pullable(q.group) /\ ~UNCHANGED <<snapshot, clientSync>>
    BY <1>1, <1>2, <1>3, <2>2, ReopenStep DEF HandlePull
  <2>. QED BY <2>1, <2>2 DEF HandlePull
<1>6. RowsConsistent' /\ StoredExists'
    BY <1>3, <1>5, PortalStepInvariant
<1>7. \/ pullReply' = pullReply
      \/ /\ q \in sent /\ sent' = sent \ {q}
         /\ \E answer \in {"ok", "error"} :
                pullReply' = [pullReply EXCEPT ![q.from] = answer]
    BY DEF HandlePull, InTransit, Delivered
<1>8. TypeOK'
    BY <1>3, <1>4, <1>5, <1>7 DEF IInv, TypeOK, PortalStep, PortalOK
<1>9. WaitsForCall'
  <2>1. q \in sent => pull[q.from] # NoGroup
    BY <1>1, ConstantsAssumption DEF IInv, SentIsAwaited, PullRequest
  <2>. QED BY <1>1, <1>3, <1>7, <2>1 DEF IInv, WaitsForCall, TypeOK
<1>10. SentIsAwaited'
  <2>1. ASSUME NEW p \in sent, p.kind = "pull", p.from = q.from, q \in sent
        PROVE  p = q
    <3>1. p \in PullRequest /\ p.group = q.group
      BY <1>1, <2>1
         DEF IInv, TypeOK, SentIsAwaited, ExchangeRequest, AckRequest, PullRequest
    <3>. QED BY <1>1, <2>1, <3>1 DEF PullRequest
  <2>2. \A p \in sent : p.from \in Clients
    BY DEF IInv, TypeOK, ExchangeRequest, AckRequest, PullRequest
  <2>. QED BY <1>1, <1>3, <1>4, <1>7, <2>1, <2>2 DEF IInv, TypeOK, SentIsAwaited
<1>11. AnswerIsNewer'
    BY <1>3, <1>5, AnswerStaysNewer
<1>12. ChangeWasStored' /\ AcksWereStored'
    BY <1>3, <1>4 DEF IInv, ChangeWasStored, AcksWereStored, AckWasStored
<1>13. AcknowledgedWasStored'
  <2>1. SUFFICES ASSUME NEW g \in Groups, NEW c \in Clients,
                        clientSync'[g][c].exists,
                        clientSync'[g][c].applied > clientSync'[g][c].start
                 PROVE  clientSync'[g][c].applied <= stored[c][g]
    BY <1>3 DEF AcknowledgedWasStored
  <2>2. CASE clientSync'[g][c] = clientSync[g][c]
    BY <2>1, <2>2 DEF IInv, AcknowledgedWasStored
  <2>3. CASE g = q.group /\ c = q.from /\ CursorReopened(g, c)
    <3>1. clientSync[g][c] \in Cursor /\ clientSync'[g][c] \in Cursor
          /\ stored[c][g] \in Nat
      BY <1>3, <1>8 DEF IInv, TypeOK
    <3>. QED BY <2>1, <2>3, <3>1
             DEF IInv, AcknowledgedWasStored, CursorReopened, Cursor
  <2>. QED BY <1>5, <2>2, <2>3 DEF CursorsKeptBut
<1>. QED BY <1>1, <1>5, <1>6, <1>8, <1>9, <1>10, <1>11, <1>12, <1>13 DEF IInv

\* Browsers and administrators: no cursor, copy or message moves.
LEMMA BrowserInvariant ==
    ASSUME IInv, NEW g \in Groups,
           \/ SaveWebConfig(g) \/ ClaimGroup(g) \/ UnbindGroup(g)
           \/ \E c \in Clients : SetBlocked(c)
    PROVE  /\ IInv'
           /\ PortalStep
           /\ UNCHANGED <<clientSync, client, wire>>
           /\ \A h \in Groups :
                \/ snapshot'[h].revision = snapshot[h].revision
                \/ /\ SaveWebConfig(g) /\ h = g
                   /\ snapshot'[h].revision = snapshot[h].revision + 1
<1>1. UNCHANGED <<clientSync, client, wire>>
    BY DEF SaveWebConfig, ClaimGroup, UnbindGroup, SetBlocked
<1>2. PortalOK /\ snapshot[g] \in Snapshot
    BY InvariantPortalOK DEF PortalOK
<1>3. /\ PortalStep
      /\ bound' \subseteq Groups /\ blocked' \subseteq Clients
      /\ \A h \in Groups :
            \/ snapshot'[h].revision = snapshot[h].revision
            \/ /\ SaveWebConfig(g) /\ h = g
               /\ snapshot'[h].revision = snapshot[h].revision + 1
  <2>0. \A h \in Groups : snapshot[h].revision \in Nat
    BY <1>2 DEF PortalOK, Snapshot
  <2>1. CASE SaveWebConfig(g)
    <3>. DEFINE raised == snapshot[g].revision + 1
                new == [snapshot[g] EXCEPT !.revision = raised, !.status = "pending"]
    <3>1. raised \in Nat /\ raised > snapshot[g].revision
      BY <2>0
    <3>2. UNCHANGED <<bound, blocked>>
      BY <2>1 DEF SaveWebConfig
    <3>3. snapshot' = [snapshot EXCEPT ![g] = new]
      BY <2>1 DEF SaveWebConfig
    <3>. HIDE DEF raised
    <3>4. new \in Snapshot /\ new.status = "pending"
          /\ new.revision = raised /\ new.applied = snapshot[g].applied
      BY <1>2, <3>1 DEF Snapshot, Statuses
    <3>. HIDE DEF new
    <3>5. RowOK(new) /\ CursorsOK(new, clientSync[g])
      BY <1>2, <3>1, <3>4 DEF PortalOK, RowOK, CursorsOK, Cursor, Snapshot
    <3>6. snapshot' \in [Groups -> Snapshot]
      BY <1>2, <3>3, <3>4 DEF PortalOK
    <3>7. \A h \in Groups : RowOK(snapshot'[h]) /\ CursorsOK(snapshot'[h], clientSync[h])
      BY <1>2, <3>3, <3>5 DEF PortalOK
    <3>8. \A h \in Groups :
            \/ snapshot'[h].revision = snapshot[h].revision
            \/ h = g /\ snapshot'[h].revision = raised
      BY <1>2, <3>3, <3>4 DEF PortalOK
    <3>9. \A h \in Groups : snapshot'[h].revision >= snapshot[h].revision
      BY <2>0, <3>1, <3>8
    <3>10. PortalStep
      BY <1>1, <1>2, <3>2, <3>6, <3>7, <3>9 DEF PortalStep, PortalOK
    <3>. QED BY <2>1, <3>2, <3>8, <3>10 DEF IInv, TypeOK, raised
  <2>2. CASE ClaimGroup(g)
    <3>. DEFINE new == [snapshot[g] EXCEPT !.status = "pending"]
    <3>1. snapshot' = [snapshot EXCEPT ![g] = new] /\ blocked' = blocked
          /\ bound' \subseteq Groups
      BY <1>2, <2>2 DEF ClaimGroup, PortalOK
    <3>2. Follows(snapshot[g], new)
      BY <1>2, MarkedFollows DEF PortalOK, Statuses
    <3>3. new.revision = snapshot[g].revision
      BY <1>2 DEF Snapshot
    <3>. HIDE DEF new
    <3>4. RowOK(new) /\ CursorsOK(new, clientSync[g])
      BY <1>2, <3>2, CursorsStayOK DEF Follows, PortalOK
    <3>5. snapshot' \in [Groups -> Snapshot]
      BY <1>2, <3>1, <3>4 DEF PortalOK, RowOK
    <3>6. \A h \in Groups : RowOK(snapshot'[h]) /\ CursorsOK(snapshot'[h], clientSync[h])
      BY <1>2, <3>1, <3>4 DEF PortalOK
    <3>7. \A h \in Groups : snapshot'[h].revision = snapshot[h].revision
      BY <1>2, <3>1, <3>3 DEF PortalOK
    <3>8. PortalStep
      BY <1>1, <1>2, <2>0, <3>1, <3>5, <3>6, <3>7 DEF PortalStep, PortalOK
    <3>. QED BY <3>1, <3>7, <3>8 DEF IInv, TypeOK
  <2>3. CASE UnbindGroup(g) \/ \E c \in Clients : SetBlocked(c)
    <3>1. snapshot' = snapshot /\ bound' \subseteq Groups /\ blocked' \subseteq Clients
      BY <1>2, <2>3 DEF UnbindGroup, SetBlocked, PortalOK, IInv, TypeOK
    <3>. QED BY <1>1, <1>2, <2>0, <3>1 DEF PortalStep, PortalOK
  <2>. QED BY <2>1, <2>2, <2>3
<1>4. RowsConsistent' /\ StoredExists'
    BY <1>1, <1>3, PortalStepInvariant DEF client
<1>5. TypeOK'
    BY <1>1, <1>3 DEF IInv, TypeOK, PortalStep, PortalOK, client, wire
<1>6. WaitsForCall' /\ SentIsAwaited' /\ ChangeWasStored' /\ AcksWereStored'
      /\ AcknowledgedWasStored'
    BY <1>1 DEF IInv, WaitsForCall, SentIsAwaited, ChangeWasStored, AcksWereStored,
                AckWasStored, AcknowledgedWasStored, client, wire
<1>7. AnswerIsNewer'
    BY <1>1, <1>3, AnswerStaysNewer DEF client
<1>. QED BY <1>1, <1>3, <1>4, <1>5, <1>6, <1>7 DEF IInv

-----------------------------------------------------------------------------
(* The clients' steps preserve the invariant.                               *)

\* The rows and cursors do not move, and neither does what they owe.
LEMMA ServerUnchanged ==
    ASSUME IInv, UNCHANGED server
    PROVE  RowsConsistent' /\ (stored' = stored => StoredExists' /\ AcknowledgedWasStored')
BY DEF IInv, RowsConsistent, StoredExists, AcknowledgedWasStored, server

LEMMA AnswerKinds ==
    ASSUME IInv, NEW c \in Clients
    PROVE  \/ reply[c] = NoReply
           \/ reply[c] \in ExchangeReply /\ reply[c].kind = "exchange"
           \/ reply[c] \in AckReply /\ reply[c].kind = "ack"
BY DEF IInv, TypeOK, ExchangeReply, AckReply

LEMMA SendExchangeInvariant ==
    ASSUME IInv, NEW c \in Clients, NEW health \in Healths,
           NEW configs \in SUBSET LocalGroups(c), NEW auths \in SUBSET LocalGroups(c),
           SendExchange(c, health, configs, auths)
    PROVE  IInv'
<1>. DEFINE q == ExchangeOf(c, health, configs, auths)
            request == [request |-> q, tries |-> 1]
<1>1. LocalGroups(c) \subseteq Groups
    BY ConstantsAssumption DEF LocalGroups, IInv, TypeOK
<1>2. q \in ExchangeRequest /\ q.kind = "exchange" /\ q.from = c
  <2>. DEFINE local == IF health # "config_unreadable" THEN LocalGroups(c) ELSE {}
              known == CASE health = "complete" -> managed[c] \union auths
                         [] health \in AuthUnreadable -> LocalGroups(c)
                         [] OTHER -> {}
              reports == IF health # "config_unreadable" /\ probed[c]
                         THEN {report \in failures[c] : report[1] \in managed[c]}
                         ELSE {}
  <2>1. local \subseteq Groups /\ known \subseteq Groups /\ configs \subseteq Groups
        /\ auths \subseteq Groups
    BY <1>1 DEF IInv, TypeOK
  <2>2. reports \in Reports
    BY DEF IInv, TypeOK, Reports
  <2>3. q = [kind |-> "exchange", from |-> c, health |-> health, local |-> local,
             known |-> known, configs |-> configs, auths |-> auths,
             failures |-> reports]
    BY DEF ExchangeOf
  <2>. HIDE DEF local, known, reports, q
  <2>. QED BY <2>1, <2>2, <2>3 DEF ExchangeRequest
<1>3. /\ loop[c] = "idle"
      /\ loop' = [loop EXCEPT ![c] = "exchange"]
      /\ call' = [call EXCEPT ![c] = request]
      /\ sent' = sent \union {q}
      /\ UNCHANGED <<server, reply, pull, pullReply, change, managed, probed,
                     manual, failures, stored, late>>
    BY DEF SendExchange
<1>. HIDE DEF q
<1>4. request \in Call /\ request.request = q
    BY <1>2, ConstantsAssumption DEF Call
<1>. HIDE DEF request
<1>5. TypeOK'
    BY <1>2, <1>3, <1>4 DEF IInv, TypeOK, server
<1>6. WaitsForCall'
  <2>1. reply[c] = NoReply
    BY <1>3, AnswerKinds DEF IInv, WaitsForCall
  <2>. QED BY <1>2, <1>3, <1>4, <2>1 DEF IInv, WaitsForCall, TypeOK
<1>7. SentIsAwaited'
  <2>1. reply[c] = NoReply
    BY <1>3, AnswerKinds DEF IInv, WaitsForCall
  <2>. QED BY <1>2, <1>3, <1>4, <2>1 DEF IInv, SentIsAwaited, TypeOK
<1>8. AcksWereStored'
    BY <1>2, <1>3, <1>4 DEF IInv, AcksWereStored, AckWasStored, TypeOK
<1>9. AnswerIsNewer' /\ ChangeWasStored'
    BY <1>3 DEF IInv, AnswerIsNewer, ChangeWasStored, server
<1>. QED BY <1>3, <1>5, <1>6, <1>7, <1>8, <1>9, ServerUnchanged DEF IInv


\* Reading an answer ends the call it belongs to.
LEMMA CallEnded ==
    ASSUME IInv, NEW c \in Clients, NEW next \in {"idle", "confirm"},
           next = "confirm" => change'[c] \in Change,
           reply[c] # NoReply,
           loop' = [loop EXCEPT ![c] = next],
           call' = [call EXCEPT ![c] = NoCall],
           reply' = [reply EXCEPT ![c] = NoReply],
           \A d \in Clients \ {c} : change'[d] = change[d],
           UNCHANGED <<pull, pullReply, wire>>
    PROVE  WaitsForCall' /\ SentIsAwaited'
<1>1. WaitsForCall'
    BY DEF IInv, WaitsForCall, TypeOK
<1>2. SentIsAwaited'
    BY DEF IInv, SentIsAwaited, TypeOK, wire
<1>. QED BY <1>1, <1>2

LEMMA ReceiveBlockedInvariant ==
    ASSUME IInv, NEW c \in Clients, ReceiveBlocked(c)
    PROVE  IInv'
<1>1. /\ reply[c] # NoReply
      /\ loop' = [loop EXCEPT ![c] = "idle"]
      /\ call' = [call EXCEPT ![c] = NoCall]
      /\ reply' = [reply EXCEPT ![c] = NoReply]
      /\ UNCHANGED <<server, pull, pullReply, change, managed, probed, manual,
                     failures, stored, wire>>
    BY DEF ReceiveBlocked, NoReply
<1>2. TypeOK'
    BY <1>1 DEF IInv, TypeOK, server, wire
<1>3. WaitsForCall' /\ SentIsAwaited'
    BY <1>1, CallEnded
<1>4. AnswerIsNewer' /\ ChangeWasStored' /\ AcksWereStored'
    BY <1>1 DEF IInv, TypeOK, AnswerIsNewer, ChangeWasStored, AcksWereStored,
                AckWasStored, NoReply, server, wire
<1>. QED BY <1>1, <1>2, <1>3, <1>4, ServerUnchanged DEF IInv

\* What reading an exchange answer does to the client, apart from its content.
LEMMA ReceiveExchangeFacts ==
    ASSUME IInv, NEW c \in Clients, ReceiveExchange(c)
    PROVE  /\ loop[c] = "exchange"
           /\ reply[c] \in ExchangeReply /\ reply[c] # NoReply
           /\ reply[c].kind = "exchange"
           /\ Undiscarded(c, reply[c]) \in Reports
           /\ HasChange(reply[c]) => reply[c].change \in Change
           /\ managed' \in [Clients -> SUBSET Groups]
           /\ probed' \in [Clients -> BOOLEAN]
           /\ reply' = [reply EXCEPT ![c] = NoReply]
           /\ call' = [call EXCEPT ![c] = NoCall]
           /\ UNCHANGED <<server, pull, pullReply, manual, wire>>
<1>1. /\ reply[c] \in ExchangeReply /\ reply[c].kind = "exchange"
      /\ reply[c] # NoReply
    BY AnswerKinds DEF ReceiveExchange, NoReply, AckReply
<1>2. loop[c] = "exchange"
    BY <1>1 DEF IInv, WaitsForCall
<1>3. Undiscarded(c, reply[c]) \in Reports
    BY DEF Undiscarded, IInv, TypeOK, Reports
<1>4. HasChange(reply[c]) => reply[c].change \in Change
    BY <1>1 DEF HasChange, ExchangeReply, NoChange
<1>5. reply[c].scope \in SUBSET Groups
    BY <1>1 DEF ExchangeReply
<1>. QED BY <1>1, <1>2, <1>3, <1>4, <1>5 DEF ReceiveExchange, IInv, TypeOK

LEMMA ReceiveUnstoredInvariant ==
    ASSUME IInv, NEW c \in Clients, ReceiveNothing(c) \/ ReceiveAndFail(c)
    PROVE  IInv'
<1>1. ReceiveExchange(c)
    BY DEF ReceiveNothing, ReceiveAndFail
<1>2. /\ loop' = [loop EXCEPT ![c] = "idle"]
      /\ UNCHANGED <<change, stored>>
    BY DEF ReceiveNothing, ReceiveAndFail
<1>3. failures' \in [Clients -> Reports]
  <2>1. CASE ReceiveNothing(c)
    BY <1>1, <2>1, ReceiveExchangeFacts DEF ReceiveNothing, IInv, TypeOK
  <2>2. CASE ReceiveAndFail(c)
    <3>. DEFINE report == <<reply[c].change.group, reply[c].change.revision>>
                reports == Undiscarded(c, reply[c]) \union {report}
    <3>1. report \in Groups \X Nat
      BY <1>1, <2>2, ReceiveExchangeFacts DEF ReceiveAndFail, Change
    <3>2. reports \in Reports
      BY <1>1, <3>1, ReceiveExchangeFacts DEF Reports
    <3>3. failures' = [failures EXCEPT ![c] = reports]
      BY <2>2 DEF ReceiveAndFail
    <3>. HIDE DEF reports
    <3>. QED BY <3>2, <3>3 DEF IInv, TypeOK
  <2>. QED BY <2>1, <2>2
<1>4. TypeOK'
    BY <1>1, <1>2, <1>3, ReceiveExchangeFacts DEF IInv, TypeOK, server, wire
<1>5. WaitsForCall' /\ SentIsAwaited'
    BY <1>1, <1>2, CallEnded, ReceiveExchangeFacts
<1>6. AnswerIsNewer'
  <2>1. UNCHANGED <<server, stored>> /\ reply' = [reply EXCEPT ![c] = NoReply]
    BY <1>1, <1>2, ReceiveExchangeFacts
  <2>. QED BY <2>1 DEF IInv, TypeOK, AnswerIsNewer, NoReply, server
<1>7. ChangeWasStored' /\ AcksWereStored'
    BY <1>1, <1>2, ReceiveExchangeFacts
       DEF IInv, TypeOK, ChangeWasStored, AcksWereStored, AckWasStored, wire
<1>. QED BY <1>1, <1>2, <1>4, <1>5, <1>6, <1>7, ReceiveExchangeFacts, ServerUnchanged
         DEF IInv

\* A copy is only overwritten by a newer revision, which the portal has.
LEMMA ReceiveAndStoreInvariant ==
    ASSUME IInv, NEW c \in Clients, ReceiveAndStore(c)
    PROVE  /\ IInv'
           /\ UNCHANGED server
           /\ \E g \in Groups : \E r \in Nat :
                /\ stored' = [stored EXCEPT ![c][g] = r]
                /\ stored[c][g] <= r /\ r <= snapshot[g].revision
<1>1. ReceiveExchange(c)
    BY DEF ReceiveAndStore
<1>. DEFINE g == reply[c].change.group
            r == reply[c].change.revision
<1>2. reply[c].change \in Change /\ g \in Groups /\ r \in Nat
    BY <1>1, ReceiveExchangeFacts DEF ReceiveAndStore, Change
<1>3. /\ loop' = [loop EXCEPT ![c] = "confirm"]
      /\ change' = [change EXCEPT ![c] = reply[c].change]
      /\ stored' = [stored EXCEPT ![c][g] = r]
      /\ failures' = [failures EXCEPT ![c] = Undiscarded(c, reply[c])]
    BY DEF ReceiveAndStore
<1>4. stored[c][g] <= r /\ r <= snapshot[g].revision
    BY <1>1, <1>2, ReceiveExchangeFacts DEF IInv, AnswerIsNewer
<1>5. /\ stored' \in [Clients -> [Groups -> Nat]]
      /\ change' \in [Clients -> Change \union {NoChange}]
      /\ change'[c] = reply[c].change
    BY <1>2, <1>3 DEF IInv, TypeOK
<1>6. TypeOK'
  <2>1. failures' \in [Clients -> Reports]
    BY <1>1, <1>3, ReceiveExchangeFacts DEF IInv, TypeOK
  <2>2. loop' \in [Clients -> {"idle", "exchange", "confirm", "ack"}]
    BY <1>3 DEF IInv, TypeOK
  <2>3. /\ reply' \in [Clients -> ExchangeReply \union AckReply \union {NoReply}]
        /\ call' \in [Clients -> Call \union {NoCall}]
    BY <1>1, ReceiveExchangeFacts DEF IInv, TypeOK
  <2>. QED BY <1>1, <1>5, <2>1, <2>2, <2>3, ReceiveExchangeFacts
           DEF IInv, TypeOK, server, wire
<1>7. WaitsForCall' /\ SentIsAwaited'
    BY <1>1, <1>2, <1>3, <1>5, CallEnded, ReceiveExchangeFacts DEF IInv, TypeOK
<1>8. \A d \in Clients, h \in Groups :
            \/ stored'[d][h] = stored[d][h]
            \/ d = c /\ h = g /\ stored'[d][h] = r
    BY <1>2, <1>3 DEF IInv, TypeOK
<1>9. \A d \in Clients, h \in Groups :
            stored'[d][h] \in Nat /\ stored[d][h] \in Nat /\ stored'[d][h] >= stored[d][h]
  <2>1. SUFFICES ASSUME NEW d \in Clients, NEW h \in Groups
                 PROVE  stored'[d][h] \in Nat /\ stored[d][h] \in Nat
                        /\ stored'[d][h] >= stored[d][h]
    OBVIOUS
  <2>2. stored'[d][h] \in Nat /\ stored[d][h] \in Nat
    BY <1>5 DEF IInv, TypeOK
  <2>3. stored'[d][h] = stored[d][h] \/ (d = c /\ h = g /\ stored'[d][h] = r)
    BY <1>8
  <2>. HIDE DEF g, r
  <2>. QED BY <1>2, <1>4, <2>2, <2>3
<1>10. RowsConsistent' /\ UNCHANGED server
    BY <1>1, ReceiveExchangeFacts, ServerUnchanged
<1>11. StoredExists'
    BY <1>4, <1>8, <1>10 DEF IInv, StoredExists, server
<1>12. AnswerIsNewer'
  <2>1. SUFFICES ASSUME NEW d \in Clients, reply'[d].kind = "exchange",
                        reply'[d].change \in Change
                 PROVE  /\ stored'[d][reply'[d].change.group]
                                <= reply'[d].change.revision
                        /\ reply'[d].change.revision
                                <= snapshot'[reply'[d].change.group].revision
    BY DEF AnswerIsNewer
  <2>2. reply' = [reply EXCEPT ![c] = NoReply] /\ NoReply.kind = "none"
    BY <1>1, ReceiveExchangeFacts DEF NoReply
  <2>3. d # c /\ reply'[d] = reply[d]
    BY <2>1, <2>2 DEF IInv, TypeOK
  <2>4. reply[d].change.group \in Groups
    BY <2>1, <2>3 DEF Change
  <2>5. stored'[d][reply[d].change.group] = stored[d][reply[d].change.group]
    BY <1>8, <2>3, <2>4
  <2>. QED BY <1>10, <2>1, <2>3, <2>5 DEF IInv, AnswerIsNewer, server
<1>13. ChangeWasStored'
  <2>1. SUFFICES ASSUME NEW d \in Clients, change'[d] \in Change
                 PROVE  change'[d].revision <= stored'[d][change'[d].group]
    BY DEF ChangeWasStored
  <2>2. CASE d = c
    BY <1>2, <1>3, <1>5, <2>2 DEF IInv, TypeOK
  <2>3. CASE d # c
    <3>1. change'[d] = change[d]
      BY <1>3, <2>3 DEF IInv, TypeOK
    <3>2. change[d].group \in Groups /\ change[d].revision \in Nat
      BY <2>1, <3>1 DEF Change
    <3>. QED BY <1>9, <2>1, <3>1, <3>2 DEF IInv, ChangeWasStored
  <2>. QED BY <2>2, <2>3
<1>14. AcksWereStored'
  <2>1. \A q \in ExchangeRequest \union AckRequest \union PullRequest :
            AckWasStored(q) => AckWasStored(q)'
    BY <1>9 DEF AckWasStored, ExchangeRequest, AckRequest, PullRequest
  <2>2. \A d \in Clients : loop'[d] \in {"exchange", "ack"} =>
            /\ loop'[d] = loop[d] /\ call'[d] = call[d]
            /\ call[d].request \in ExchangeRequest \union AckRequest
    BY <1>1, <1>3, ReceiveExchangeFacts DEF IInv, TypeOK, WaitsForCall, Call
  <2>. QED BY <1>1, <2>1, <2>2, ReceiveExchangeFacts
           DEF IInv, AcksWereStored, AckWasStored, TypeOK, wire
<1>15. AcknowledgedWasStored'
  <2>1. \A h \in Groups, d \in Clients : clientSync[h][d].applied \in Nat
    BY DEF IInv, TypeOK, Cursor
  <2>. QED BY <1>9, <1>10, <2>1 DEF IInv, AcknowledgedWasStored, server
<1>. QED BY <1>2, <1>3, <1>4, <1>6, <1>7, <1>10, <1>11, <1>12, <1>13, <1>14, <1>15 DEF IInv

LEMMA SendAckInvariant ==
    ASSUME IInv, NEW c \in Clients, SendAck(c)
    PROVE  IInv'
<1>. DEFINE q == [kind |-> "ack", from |-> c, group |-> change[c].group,
                  revision |-> change[c].revision]
            request == [request |-> q, tries |-> 1]
<1>1. /\ loop[c] = "confirm"
      /\ loop' = [loop EXCEPT ![c] = "ack"]
      /\ call' = [call EXCEPT ![c] = request]
      /\ sent' = sent \union {q}
      /\ UNCHANGED <<server, reply, pull, pullReply, change, managed, probed,
                     manual, failures, stored, late>>
    BY DEF SendAck
<1>2. change[c] \in Change
    BY <1>1 DEF IInv, WaitsForCall
<1>3. q \in AckRequest /\ q.kind = "ack" /\ q.from = c
    BY <1>2 DEF AckRequest, Change
<1>4. AckWasStored(q)
    BY <1>2 DEF AckWasStored, IInv, ChangeWasStored
<1>. HIDE DEF q
<1>5. request \in Call /\ request.request = q
    BY <1>3, ConstantsAssumption DEF Call
<1>. HIDE DEF request
<1>6. reply[c] = NoReply
    BY <1>1, AnswerKinds DEF IInv, WaitsForCall
<1>7. TypeOK'
    BY <1>1, <1>3, <1>5 DEF IInv, TypeOK, server
<1>8. WaitsForCall'
    BY <1>1, <1>2, <1>3, <1>5, <1>6 DEF IInv, WaitsForCall, TypeOK
<1>9. SentIsAwaited'
    BY <1>1, <1>3, <1>5, <1>6 DEF IInv, SentIsAwaited, TypeOK
<1>10. AcksWereStored'
    BY <1>1, <1>3, <1>4, <1>5 DEF IInv, AcksWereStored, AckWasStored, TypeOK
<1>11. AnswerIsNewer' /\ ChangeWasStored'
    BY <1>1 DEF IInv, AnswerIsNewer, ChangeWasStored, server
<1>. QED BY <1>1, <1>7, <1>8, <1>9, <1>10, <1>11, ServerUnchanged DEF IInv

LEMMA ReceiveAckInvariant ==
    ASSUME IInv, NEW c \in Clients, ReceiveAck(c)
    PROVE  IInv'
<1>. DEFINE report == <<change[c].group, change[c].revision>>
<1>1. /\ reply[c] # NoReply /\ reply[c].kind = "ack"
      /\ loop' = [loop EXCEPT ![c] = "idle"]
      /\ call' = [call EXCEPT ![c] = NoCall]
      /\ reply' = [reply EXCEPT ![c] = NoReply]
      /\ change' = [change EXCEPT ![c] = NoChange]
      /\ UNCHANGED <<server, pull, pullReply, managed, probed, stored, wire>>
    BY DEF ReceiveAck, NoReply
<1>2. change[c] \in Change
    BY <1>1 DEF IInv, WaitsForCall
<1>3. report \in Groups \X Nat
    BY <1>2 DEF Change
<1>4. failures[c] \ {report} \in Reports /\ failures[c] \union {report} \in Reports
    BY <1>3 DEF IInv, TypeOK, Reports
<1>5. \/ failures' = [failures EXCEPT ![c] = @ \ {report}]
      \/ failures' = [failures EXCEPT ![c] = @ \union {report}]
    BY DEF ReceiveAck
<1>6. \/ manual' = manual
      \/ manual' = [manual EXCEPT ![c] = @ \ {change[c].group}]
    BY DEF ReceiveAck
<1>. HIDE DEF report
<1>7. failures' \in [Clients -> Reports]
    BY <1>4, <1>5 DEF IInv, TypeOK
<1>12. manual' \in [Clients -> SUBSET Groups]
  <2>. DEFINE kept == manual[c] \ {change[c].group}
  <2>1. kept \in SUBSET Groups
    BY DEF IInv, TypeOK
  <2>2. manual' = manual \/ manual' = [manual EXCEPT ![c] = kept]
    BY <1>6
  <2>. HIDE DEF kept
  <2>. QED BY <2>1, <2>2 DEF IInv, TypeOK
<1>8. TypeOK'
    BY <1>1, <1>7, <1>12 DEF IInv, TypeOK, server, wire
<1>9. WaitsForCall' /\ SentIsAwaited'
    BY <1>1, CallEnded DEF IInv, TypeOK
<1>10. AnswerIsNewer' /\ AcksWereStored'
    BY <1>1 DEF IInv, TypeOK, AnswerIsNewer, AcksWereStored, AckWasStored, NoReply,
                server, wire
<1>11. ChangeWasStored'
  <2>1. NoChange \notin Change
    BY ConstantsAssumption DEF NoChange, Change
  <2>. QED BY <1>1, <2>1 DEF IInv, TypeOK, ChangeWasStored
<1>. QED BY <1>1, <1>8, <1>9, <1>10, <1>11, ServerUnchanged DEF IInv

LEMMA AbandonedWasSent ==
    ASSUME NEW q, Abandon(q)
    PROVE  late' \subseteq late \union sent
BY DEF Abandon

LEMMA RetryInvariant ==
    ASSUME IInv, NEW c \in Clients, Retry(c)
    PROVE  IInv'
<1>. DEFINE q == call[c].request
<1>1. /\ call[c] # NoCall /\ call[c].tries < Attempts
      /\ call' = [call EXCEPT ![c].tries = @ + 1]
      /\ reply' = [reply EXCEPT ![c] = NoReply]
      /\ sent' = sent \union {q}
      /\ late' \subseteq late \union sent
      /\ UNCHANGED <<server, loop, pull, pullReply, change, managed, probed,
                     manual, failures, stored>>
    BY AbandonedWasSent DEF Retry
<1>2. /\ loop[c] \in {"exchange", "ack"}
      /\ call[c] \in Call /\ q.kind = loop[c] /\ q.from = c
    BY <1>1 DEF IInv, WaitsForCall, TypeOK
<1>3. q \in ExchangeRequest \union AckRequest
    BY <1>2 DEF Call
<1>4. /\ call' \in [Clients -> Call \union {NoCall}] /\ call'[c] \in Call
      /\ \A d \in Clients : call'[d].request = call[d].request
                            /\ (d # c => call'[d] = call[d])
  <2>. DEFINE again == [call[c] EXCEPT !.tries = @ + 1]
  <2>1. again \in Call /\ again.request = call[c].request
    BY <1>1, <1>2, ConstantsAssumption DEF Call
  <2>2. call' = [call EXCEPT ![c] = again]
    BY <1>1
  <2>. HIDE DEF again
  <2>. QED BY <2>1, <2>2 DEF IInv, TypeOK
<1>6. TypeOK'
    BY <1>1, <1>3, <1>4 DEF IInv, TypeOK, server
<1>7. WaitsForCall'
    BY <1>1, <1>2, <1>4 DEF IInv, WaitsForCall, TypeOK
<1>8. SentIsAwaited'
  <2>1. \A p \in sent : p.from \in Clients
    BY DEF IInv, TypeOK, ExchangeRequest, AckRequest, PullRequest
  <2>. QED BY <1>1, <1>2, <1>4, <2>1 DEF IInv, SentIsAwaited, TypeOK
<1>9. AcksWereStored'
    BY <1>1, <1>2, <1>4 DEF IInv, AcksWereStored, AckWasStored
<1>10. AnswerIsNewer' /\ ChangeWasStored'
    BY <1>1 DEF IInv, TypeOK, AnswerIsNewer, ChangeWasStored, NoReply, server
<1>. QED BY <1>1, <1>6, <1>7, <1>8, <1>9, <1>10, ServerUnchanged DEF IInv

LEMMA GiveUpInvariant ==
    ASSUME IInv, NEW c \in Clients, GiveUp(c)
    PROVE  IInv'
<1>. DEFINE q == call[c].request
            report == <<change[c].group, change[c].revision>>
<1>1. /\ call[c] # NoCall
      /\ call' = [call EXCEPT ![c] = NoCall]
      /\ reply' = [reply EXCEPT ![c] = NoReply]
      /\ sent' = sent \ {q}
      /\ late' \subseteq late \union sent
      /\ loop' = [loop EXCEPT ![c] = "idle"]
      /\ change' = [change EXCEPT ![c] = NoChange]
      /\ UNCHANGED <<server, pull, pullReply, managed, probed, manual, stored>>
    BY AbandonedWasSent DEF GiveUp
<1>2. failures' \in [Clients -> Reports]
  <2>1. LostAck(c) \in Reports
    <3>1. CASE loop[c] = "ack"
      <4>1. change[c] \in Change
        BY <3>1 DEF IInv, WaitsForCall
      <4>2. report \in Groups \X Nat
        BY <4>1 DEF Change
      <4>. QED BY <3>1, <4>2 DEF LostAck, Reports
    <3>2. CASE loop[c] # "ack"
      BY <3>2 DEF LostAck, Reports
    <3>. QED BY <3>1, <3>2
  <2>2. failures[c] \union LostAck(c) \in Reports
    BY <2>1 DEF IInv, TypeOK, Reports
  <2>3. failures' = [failures EXCEPT ![c] = @ \union LostAck(c)]
    BY DEF GiveUp
  <2>. QED BY <2>2, <2>3 DEF IInv, TypeOK
<1>3. TypeOK'
    BY <1>1, <1>2 DEF IInv, TypeOK, server
<1>4. WaitsForCall'
    BY <1>1 DEF IInv, WaitsForCall, TypeOK
<1>5. SentIsAwaited'
    BY <1>1 DEF IInv, SentIsAwaited, TypeOK
<1>6. AcksWereStored'
    BY <1>1 DEF IInv, AcksWereStored, AckWasStored, TypeOK
<1>7. AnswerIsNewer'
    BY <1>1 DEF IInv, TypeOK, AnswerIsNewer, NoReply, server
<1>8. ChangeWasStored'
  <2>1. NoChange \notin Change
    BY ConstantsAssumption DEF NoChange, Change
  <2>. QED BY <1>1, <2>1 DEF IInv, TypeOK, ChangeWasStored
<1>. QED BY <1>1, <1>3, <1>4, <1>5, <1>6, <1>7, <1>8, ServerUnchanged DEF IInv

\* The pull command has a call of its own.
LEMMA SendPullInvariant ==
    ASSUME IInv, NEW c \in Clients, NEW g \in Groups, SendPull(c, g)
    PROVE  IInv'
<1>. DEFINE q == [kind |-> "pull", from |-> c, group |-> g]
<1>1. /\ pull[c] = NoGroup
      /\ pull' = [pull EXCEPT ![c] = g]
      /\ sent' = sent \union {q}
      /\ UNCHANGED <<server, loop, call, reply, pullReply, change, managed, probed,
                     manual, failures, stored, late>>
    BY DEF SendPull
<1>2. q \in PullRequest /\ q.kind = "pull" /\ q.from = c /\ q.group = g
    BY DEF PullRequest
<1>. HIDE DEF q
<1>3. TypeOK'
    BY <1>1, <1>2 DEF IInv, TypeOK, server
<1>4. WaitsForCall'
    BY <1>1, ConstantsAssumption DEF IInv, WaitsForCall, TypeOK
<1>5. SentIsAwaited'
  <2>1. pullReply[c] = "none"
    BY <1>1 DEF IInv, WaitsForCall
  <2>2. \A p \in sent : p.kind = "pull" => p.from # c
    <3>1. SUFFICES ASSUME NEW p \in sent, p.kind = "pull", p.from = c PROVE FALSE
      OBVIOUS
    <3>2. p \in PullRequest
      BY <3>1 DEF IInv, TypeOK, ExchangeRequest, AckRequest, PullRequest
    <3>3. p.group \in Groups /\ pull[c] = p.group
      BY <3>1, <3>2 DEF IInv, SentIsAwaited, PullRequest
    <3>. QED BY <1>1, <3>3, ConstantsAssumption
  <2>3. \A p \in sent : p.from \in Clients
    BY DEF IInv, TypeOK, ExchangeRequest, AckRequest, PullRequest
  <2>. QED BY <1>1, <1>2, <2>1, <2>2, <2>3 DEF IInv, SentIsAwaited, TypeOK
<1>6. AcksWereStored'
    BY <1>1, <1>2 DEF IInv, AcksWereStored, AckWasStored
<1>7. AnswerIsNewer' /\ ChangeWasStored'
    BY <1>1 DEF IInv, AnswerIsNewer, ChangeWasStored, server
<1>. QED BY <1>1, <1>3, <1>4, <1>5, <1>6, <1>7, ServerUnchanged DEF IInv

LEMMA EndPullInvariant ==
    ASSUME IInv, NEW c \in Clients, ReceivePull(c) \/ GiveUpPull(c)
    PROVE  IInv'
<1>. DEFINE q == [kind |-> "pull", from |-> c, group |-> pull[c]]
<1>1. /\ pull' = [pull EXCEPT ![c] = NoGroup]
      /\ pullReply' = [pullReply EXCEPT ![c] = "none"]
      /\ UNCHANGED <<server, loop, call, reply, change, managed, probed, failures,
                     stored>>
    BY DEF ReceivePull, GiveUpPull
<1>2. sent' \subseteq sent /\ late' \subseteq late \union sent
    BY AbandonedWasSent DEF ReceivePull, GiveUpPull, wire
<1>3. \A p \in sent' : p.kind = "pull" => p.from # c
  <2>1. SUFFICES ASSUME NEW p \in sent', p.kind = "pull", p.from = c PROVE FALSE
    OBVIOUS
  <2>2. p \in PullRequest /\ p.group = pull[c] /\ pullReply[c] = "none"
    BY <1>2, <2>1
       DEF IInv, TypeOK, SentIsAwaited, ExchangeRequest, AckRequest, PullRequest
  <2>3. p = q
    BY <2>1, <2>2 DEF PullRequest
  <2>. QED BY <1>2, <2>2, <2>3 DEF ReceivePull, GiveUpPull
<1>4. manual' \in [Clients -> SUBSET Groups]
  <2>1. CASE ReceivePull(c)
    <3>1. pull[c] \in Groups
      BY <2>1 DEF ReceivePull, IInv, WaitsForCall, TypeOK
    <3>. QED BY <2>1, <3>1 DEF ReceivePull, IInv, TypeOK
  <2>2. CASE GiveUpPull(c)
    BY <2>2 DEF GiveUpPull, IInv, TypeOK
  <2>. QED BY <2>1, <2>2
<1>5. TypeOK'
    BY <1>1, <1>2, <1>4 DEF IInv, TypeOK, server
<1>6. WaitsForCall'
    BY <1>1 DEF IInv, WaitsForCall, TypeOK
<1>7. SentIsAwaited'
  <2>1. \A p \in sent : p.from \in Clients
    BY DEF IInv, TypeOK, ExchangeRequest, AckRequest, PullRequest
  <2>. QED BY <1>1, <1>2, <1>3, <2>1 DEF IInv, SentIsAwaited, TypeOK
<1>8. AcksWereStored'
    BY <1>1, <1>2 DEF IInv, AcksWereStored, AckWasStored
<1>9. AnswerIsNewer' /\ ChangeWasStored'
    BY <1>1 DEF IInv, AnswerIsNewer, ChangeWasStored, server
<1>. QED BY <1>1, <1>5, <1>6, <1>7, <1>8, <1>9, ServerUnchanged DEF IInv

\* A restart forgets everything but the copies on the disk.
LEMMA RestartInvariant ==
    ASSUME IInv, NEW c \in Clients, Restart(c)
    PROVE  IInv'
<1>1. /\ loop' = [loop EXCEPT ![c] = "idle"]
      /\ call' = [call EXCEPT ![c] = NoCall]
      /\ reply' = [reply EXCEPT ![c] = NoReply]
      /\ pull' = [pull EXCEPT ![c] = NoGroup]
      /\ pullReply' = [pullReply EXCEPT ![c] = "none"]
      /\ change' = [change EXCEPT ![c] = NoChange]
      /\ managed' = [managed EXCEPT ![c] = {}]
      /\ probed' = [probed EXCEPT ![c] = FALSE]
      /\ manual' = [manual EXCEPT ![c] = {}]
      /\ failures' = [failures EXCEPT ![c] = {}]
      /\ UNCHANGED <<server, stored>>
    BY DEF Restart
<1>2. /\ sent' = {q \in sent : q.from # c}
      /\ late' \subseteq late \union sent
    BY DEF Restart
<1>3. TypeOK'
    BY <1>1, <1>2 DEF IInv, TypeOK, Reports, server
<1>4. WaitsForCall'
    BY <1>1 DEF IInv, WaitsForCall, TypeOK
<1>5. SentIsAwaited'
  <2>1. \A p \in sent : p.from \in Clients
    BY DEF IInv, TypeOK, ExchangeRequest, AckRequest, PullRequest
  <2>. QED BY <1>1, <1>2, <2>1 DEF IInv, SentIsAwaited, TypeOK
<1>6. AcksWereStored'
    BY <1>1, <1>2 DEF IInv, AcksWereStored, AckWasStored, TypeOK
<1>7. AnswerIsNewer'
    BY <1>1 DEF IInv, TypeOK, AnswerIsNewer, NoReply, server
<1>8. ChangeWasStored'
  <2>1. NoChange \notin Change
    BY ConstantsAssumption DEF NoChange, Change
  <2>. QED BY <1>1, <2>1 DEF IInv, TypeOK, ChangeWasStored
<1>. QED BY <1>1, <1>3, <1>4, <1>5, <1>6, <1>7, <1>8, ServerUnchanged DEF IInv

-----------------------------------------------------------------------------
(* The invariant.                                                           *)

LEMMA InitInvariant == Init => IInv
<1>. SUFFICES ASSUME Init PROVE IInv
    OBVIOUS
<1>1. \A g \in Groups : RowOK(snapshot[g]) /\ snapshot[g] \in Snapshot
  <2>1. SUFFICES ASSUME NEW g \in Groups PROVE RowOK(snapshot[g])
    BY DEF RowOK
  <2>2. PICK row \in {NoSnapshot, [NoSnapshot EXCEPT !.status = "synced"],
                [status |-> "synced", revision |-> 1, applied |-> 1, owner |-> NoClient]} :
            snapshot[g] = row
    BY DEF Init
  <2>3. RowOK(row)
    BY DEF RowOK, Snapshot, Statuses, NoSnapshot
  <2>. QED BY <2>2, <2>3
<1>2. snapshot \in [Groups -> Snapshot]
    BY <1>1 DEF Init
<1>3. NoCursor \in Cursor /\ NoCursor.applied = 0 /\ ~NoCursor.exists
    BY CursorType DEF NoCursor, CursorAt
<1>4. clientSync \in [Groups -> [Clients -> Cursor]]
      /\ \A g \in Groups, c \in Clients : clientSync[g][c] = NoCursor
    BY <1>3 DEF Init
<1>5. TypeOK
    BY <1>2, <1>4 DEF Init, TypeOK, Reports
<1>6. WaitsForCall /\ SentIsAwaited
    BY DEF Init, WaitsForCall, SentIsAwaited
<1>7. RowsConsistent
    BY <1>1, <1>3, <1>4 DEF RowsConsistent, RowOK, Snapshot
<1>8. StoredExists
    BY <1>2 DEF Init, StoredExists, Snapshot
<1>9. AnswerIsNewer
    BY DEF Init, AnswerIsNewer, NoReply
<1>10. ChangeWasStored
  <2>1. NoChange \notin Change
    BY ConstantsAssumption DEF NoChange, Change
  <2>. QED BY <2>1 DEF Init, ChangeWasStored
<1>11. AcksWereStored
    BY DEF Init, AcksWereStored
<1>12. AcknowledgedWasStored
    BY <1>3, <1>4 DEF AcknowledgedWasStored
<1>. QED BY <1>5, <1>6, <1>7, <1>8, <1>9, <1>10, <1>11, <1>12 DEF IInv

\* What every step leaves behind, besides the invariant.
StepFacts ==
    /\ \A c \in Clients, g \in Groups :
        \/ stored'[c][g] = stored[c][g]
        \/ stored'[c][g] >= stored[c][g]
    /\ \A g \in Groups, c \in Clients :
        LET old == clientSync[g][c]
            new == clientSync'[g][c]
        IN  \/ new.applied >= old.applied
            \/ /\ new.pulling
               /\ \E q \in sent \union late :
                    q.kind = "pull" /\ q.group = g /\ q.from = c

LEMMA KeptCursorFacts ==
    ASSUME IInv, stored' = stored, IInv', CursorsKept \/ clientSync' = clientSync
    PROVE  StepFacts
<1>1. \A g \in Groups, c \in Clients :
            /\ clientSync[g][c].applied \in Nat /\ clientSync'[g][c].applied \in Nat
            /\ ~clientSync[g][c].exists => clientSync[g][c].applied = 0
    BY DEF IInv, TypeOK, Cursor, RowsConsistent
<1>2. \A g \in Groups, c \in Clients : clientSync'[g][c].applied >= clientSync[g][c].applied
    BY <1>1 DEF CursorsKept
<1>. QED BY <1>2 DEF StepFacts

LEMMA PortalInvariant ==
    ASSUME IInv, Portal
    PROVE  IInv' /\ StepFacts
<1>1. CASE \E live \in BOOLEAN : \E q \in sent \union late : HandleExchange(q, live)
  <2>1. PICK live \in BOOLEAN, q \in sent \union late : HandleExchange(q, live)
    BY <1>1
  <2>2. IInv' /\ CursorsKept /\ stored' = stored
    BY <2>1, HandleExchangeInvariant DEF HandleExchange
  <2>. QED BY <2>2, KeptCursorFacts
<1>2. CASE \E live \in BOOLEAN : \E q \in sent \union late : HandleAck(q, live)
  <2>1. PICK live \in BOOLEAN, q \in sent \union late : HandleAck(q, live)
    BY <1>2
  <2>2. /\ IInv'
        /\ CursorsKeptBut(q.group, q.from)
        /\ \/ clientSync' = clientSync
           \/ CursorConfirmed(q.group, q.from, q.revision)
        /\ stored' = stored
    BY <2>1, HandleAckInvariant DEF HandleAck
  <2>3. \A g \in Groups, c \in Clients :
            clientSync[g][c].applied \in Nat /\ clientSync'[g][c].applied \in Nat
    BY <2>2 DEF IInv, TypeOK, Cursor
  <2>4. \A g \in Groups, c \in Clients :
            clientSync'[g][c].applied >= clientSync[g][c].applied
    BY <2>2, <2>3 DEF CursorsKeptBut, CursorConfirmed
  <2>. QED BY <2>2, <2>4 DEF StepFacts
<1>3. CASE \E live \in BOOLEAN : \E q \in sent \union late : HandlePull(q, live)
  <2>1. PICK live \in BOOLEAN, q \in sent \union late : HandlePull(q, live)
    BY <1>3
  <2>2. /\ IInv'
        /\ CursorsKeptBut(q.group, q.from)
        /\ clientSync' = clientSync \/ CursorReopened(q.group, q.from)
        /\ stored' = stored
        /\ q.kind = "pull"
    BY <2>1, HandlePullInvariant DEF HandlePull
  <2>3. \A g \in Groups, c \in Clients :
            clientSync[g][c].applied \in Nat /\ clientSync'[g][c].applied \in Nat
    BY <2>2 DEF IInv, TypeOK, Cursor
  <2>4. \A g \in Groups, c \in Clients :
            \/ clientSync'[g][c].applied >= clientSync[g][c].applied
            \/ g = q.group /\ c = q.from /\ clientSync'[g][c].pulling
    BY <2>2, <2>3 DEF CursorsKeptBut, CursorReopened
  <2>. QED BY <2>2, <2>4 DEF StepFacts
<1>4. CASE \/ \E g \in Groups : SaveWebConfig(g) \/ ClaimGroup(g) \/ UnbindGroup(g)
           \/ \E c \in Clients : SetBlocked(c)
  <2>1. CASE Groups = {}
    <3>1. PICK c \in Clients : SetBlocked(c)
      BY <1>4, <2>1
    <3>2. UNCHANGED <<bound, snapshot, clientSync, client, wire>> /\ blocked' \subseteq Clients
      BY <3>1 DEF SetBlocked, IInv, TypeOK
    <3>3. IInv'
      BY <3>2 DEF IInv, TypeOK, WaitsForCall, SentIsAwaited, RowsConsistent,
                  StoredExists, AnswerIsNewer, ChangeWasStored, AcksWereStored,
                  AckWasStored, AcknowledgedWasStored, client, wire
    <3>. QED BY <3>2, <3>3, KeptCursorFacts DEF client
  <2>2. CASE Groups # {}
    <3>1. PICK g \in Groups : \/ SaveWebConfig(g) \/ ClaimGroup(g) \/ UnbindGroup(g)
                              \/ \E c \in Clients : SetBlocked(c)
      BY <1>4, <2>2
    <3>2. IInv' /\ UNCHANGED <<clientSync, client, wire>>
      BY <3>1, BrowserInvariant
    <3>. QED BY <3>2, KeptCursorFacts DEF client
  <2>. QED BY <2>1, <2>2
<1>. QED BY <1>1, <1>2, <1>3, <1>4 DEF Portal

LEMMA WindowsInvariant ==
    ASSUME IInv, NEW c \in Clients, Windows(c)
    PROVE  IInv' /\ StepFacts
<1>1. CASE ReceiveAndStore(c)
  <2>1. /\ IInv' /\ UNCHANGED server
        /\ \E g \in Groups : \E r \in Nat :
                stored' = [stored EXCEPT ![c][g] = r] /\ stored[c][g] <= r
    BY <1>1, ReceiveAndStoreInvariant
  <2>2. \A d \in Clients, g \in Groups :
            stored'[d][g] = stored[d][g] \/ stored'[d][g] >= stored[d][g]
    BY <2>1 DEF IInv, TypeOK
  <2>3. \A g \in Groups, d \in Clients :
            clientSync'[g][d].applied >= clientSync[g][d].applied
    BY <2>1 DEF IInv, TypeOK, Cursor, server
  <2>. QED BY <2>1, <2>2, <2>3 DEF StepFacts
<1>2. CASE ~ReceiveAndStore(c)
  <2>1. UNCHANGED server /\ stored' = stored
    BY <1>2 DEF Windows, SendExchange, ReceiveBlocked, ReceiveNothing, ReceiveAndFail,
                ReceiveExchange, SendAck, ReceiveAck, Retry, GiveUp, SendPull,
                ReceivePull, GiveUpPull, Restart
  <2>2. IInv'
    <3>1. CASE \E health \in Healths,
                  configs \in SUBSET LocalGroups(c), auths \in SUBSET LocalGroups(c) :
                  SendExchange(c, health, configs, auths)
      BY <3>1, SendExchangeInvariant
    <3>2. CASE ReceiveBlocked(c) \/ ReceiveNothing(c) \/ ReceiveAndFail(c)
      BY <3>2, ReceiveBlockedInvariant, ReceiveUnstoredInvariant
    <3>3. CASE SendAck(c) \/ ReceiveAck(c)
      BY <3>3, SendAckInvariant, ReceiveAckInvariant
    <3>4. CASE Retry(c) \/ GiveUp(c)
      BY <3>4, RetryInvariant, GiveUpInvariant
    <3>5. CASE (\E g \in Groups : SendPull(c, g)) \/ ReceivePull(c) \/ GiveUpPull(c)
      BY <3>5, SendPullInvariant, EndPullInvariant
    <3>6. CASE Restart(c)
      BY <3>6, RestartInvariant
    <3>. QED BY <1>2, <3>1, <3>2, <3>3, <3>4, <3>5, <3>6 DEF Windows
  <2>. QED BY <2>1, <2>2, KeptCursorFacts DEF server
<1>. QED BY <1>1, <1>2

LEMMA NextInvariant ==
    ASSUME IInv, [Next]_vars
    PROVE  IInv' /\ StepFacts
<1>1. CASE Next
    BY <1>1, PortalInvariant, WindowsInvariant DEF Next
<1>2. CASE UNCHANGED vars
  <2>1. UNCHANGED <<server, client, wire>>
    BY <1>2 DEF vars
  <2>2. IInv'
    BY <2>1 DEF IInv, TypeOK, WaitsForCall, SentIsAwaited, RowsConsistent,
                StoredExists, AnswerIsNewer, ChangeWasStored, AcksWereStored,
                AckWasStored, AcknowledgedWasStored, server, client, wire
  <2>. QED BY <2>1, <2>2, KeptCursorFacts DEF server, client
<1>. QED BY <1>1, <1>2

THEOREM Invariance == Spec => []IInv
BY InitInvariant, NextInvariant, PTL DEF Spec

-----------------------------------------------------------------------------
(* Theorems.                                                                *)

\* Type correctness, for any number of groups and clients and any bounds.
THEOREM TypeCorrect == Spec => []TypeOK
BY Invariance, PTL DEF IInv

\* The portal never believes a client further than what that client wrote to
\* its disk: no loss, retry, late delivery, restart or pull of
\* acknowledge_bot_changes and request_group_config_pull breaks that.
THEOREM AcknowledgedCorrect == Spec => []AcknowledgedWasStored
BY Invariance, PTL DEF IInv

\* sync_once never writes an older portal revision over a newer one.
THEOREM StoredMonotonic == Spec => StoredNeverRegresses
<1>1. ASSUME IInv, [Next]_vars
      PROVE  [\A c \in Clients, g \in Groups : stored'[c][g] >= stored[c][g]]_vars
    BY <1>1, NextInvariant DEF StepFacts, IInv, TypeOK
<1>. QED BY <1>1, Invariance, PTL DEF Spec, StoredNeverRegresses

\* Only request_group_config_pull takes an acknowledgement back.
THEOREM CursorMonotonicButPull == Spec => CursorOnlyReopenedByPull
<1>1. ASSUME IInv, [Next]_vars
      PROVE  [\A g \in Groups, c \in Clients :
                clientSync'[g][c].applied < clientSync[g][c].applied
                    => /\ clientSync'[g][c].pulling
                       /\ \E q \in sent \union late :
                            q.kind = "pull" /\ q.group = g /\ q.from = c]_vars
  <2>1. StepFacts /\ IInv'
    BY <1>1, NextInvariant
  <2>2. \A g \in Groups, c \in Clients :
            clientSync'[g][c].applied \in Nat /\ clientSync[g][c].applied \in Nat
    BY <1>1, <2>1 DEF IInv, TypeOK, Cursor
  <2>. QED BY <2>1, <2>2 DEF StepFacts
<1>. QED BY <1>1, Invariance, PTL DEF Spec, CursorOnlyReopenedByPull

-----------------------------------------------------------------------------
(* What a row shows.                                                        *)

\* A row shown as synchronized records its revision as applied, and one that
\* shows an error has a client with a report.
Shown(row, cursors) ==
    /\ RowOK(row)
    /\ row.status = "synced" => row.applied >= row.revision
    /\ row.status = "error" =>
            \E c \in Clients : cursors[c].exists /\ cursors[c].failed > 0

\* A report is about a revision that its client has not applied.
Reported(row, cursors) ==
    \A c \in Clients :
        cursors[c].exists /\ cursors[c].failed > 0 =>
            /\ cursors[c].applied < cursors[c].failed
            /\ cursors[c].failed <= row.revision

\* No client is behind what the row records as applied.
Level(row, cursors) ==
    \A c \in Clients : cursors[c].exists => row.applied <= cursors[c].applied

Behind(row, cursors) ==
    \E c \in Clients : cursors[c].exists /\ cursors[c].applied < row.revision

ShownInv ==
    \A g \in Groups :
        Shown(snapshot[g], clientSync[g]) /\ Reported(snapshot[g], clientSync[g])

LEMMA LevelMeans ==
    ASSUME NEW row, NEW cursors, cursors \in [Clients -> Cursor],
           Shown(row, cursors), Level(row, cursors)
    PROVE  row.status = "synced" => ~Behind(row, cursors)
BY DEF Shown, Level, Behind, RowOK, Snapshot, Cursor

\* The summary records what the slowest client has, and an error of a client.
LEMMA SummarisedMeans ==
    ASSUME NEW row, RowOK(row), NEW cursors, CursorsOK(row, cursors),
           \E c \in Clients : cursors[c].exists
    PROVE  /\ Shown(Summarised(row, cursors), cursors)
           /\ Level(Summarised(row, cursors), cursors)
<1>. DEFINE known == {c \in Clients : cursors[c].exists}
            heights == {cursors[c].applied : c \in known}
            slowest == Min(heights)
<1>1. known # {} /\ heights # {} /\ heights \subseteq Nat
    BY DEF CursorsOK, Cursor
<1>2. slowest \in Nat /\ \A h \in heights : slowest <= h
  <2>. HIDE DEF heights
  <2>. QED BY <1>1, MinNat
<1>3. \A c \in Clients : cursors[c].exists => slowest <= cursors[c].applied
    BY <1>2
<1>. DEFINE failing == \E c \in known : cursors[c].failed > 0
            status == CASE slowest >= row.revision -> "synced"
                        [] slowest < row.revision /\ failing -> "error"
                        [] OTHER -> "pending"
<1>4. Summarised(row, cursors) = [row EXCEPT !.applied = slowest, !.status = status]
    BY <1>1 DEF Summarised
<1>5. row \in Snapshot /\ RowOK(Summarised(row, cursors))
    BY SummarisedFollows DEF RowOK, Follows
<1>6. /\ status = "synced" => slowest >= row.revision
      /\ status = "error" => failing
  <2>. HIDE DEF slowest, failing
  <2>. QED BY <1>2, <1>5 DEF Snapshot
<1>7. failing => \E c \in Clients : cursors[c].exists /\ cursors[c].failed > 0
    OBVIOUS
<1>. HIDE DEF slowest, status, failing
<1>. QED BY <1>3, <1>4, <1>5, <1>6, <1>7 DEF Shown, Level, Snapshot

\* What an exchange does to a row by itself.
LEMMA MarkedShown ==
    ASSUME NEW row, NEW cursors, Shown(row, cursors),
           NEW status \in {"pending", "protected", "partial"}
    PROVE  /\ Shown([row EXCEPT !.status = status], cursors)
           /\ [row EXCEPT !.status = status].status = status
           /\ [row EXCEPT !.status = status].applied = row.applied
           /\ [row EXCEPT !.status = status].revision = row.revision
<1>1. RowOK([row EXCEPT !.status = status])
    BY MarkedFollows DEF Shown, Follows, Statuses
<1>2. /\ [row EXCEPT !.status = status].status = status
      /\ [row EXCEPT !.status = status].applied = row.applied
      /\ [row EXCEPT !.status = status].revision = row.revision
    BY DEF Shown, RowOK, Snapshot
<1>. QED BY <1>1, <1>2 DEF Shown

LEMMA AdoptedFacts ==
    ASSUME NEW row, RowOK(row), NEW c \in Clients
    PROVE  /\ Adopted(row, c) = row \/ Adopted(row, c).status = "pending"
           /\ Adopted(row, c).applied <= row.applied
BY DEF Adopted, RowOK, Snapshot

LEMMA SourceRecoveredShown ==
    ASSUME NEW row, NEW cursors, Shown(row, cursors)
    PROVE  /\ Shown(SourceRecovered(row), cursors)
           /\ SourceRecovered(row).applied = row.applied
           /\ SourceRecovered(row).revision = row.revision
           /\ SourceRecovered(row).status = "synced" =>
                \/ row.status = "synced"
                \/ row.status \in {"protected", "partial"} /\ row.applied >= row.revision
<1>1. RowOK(SourceRecovered(row)) /\ row \in Snapshot
    BY SourceRecoveredFollows DEF Shown, Follows, RowOK
<1>. DEFINE status == IF row.revision > row.applied THEN "pending" ELSE "synced"
<1>2. CASE row.status \in {"protected", "partial"}
  <2>1. SourceRecovered(row) = [row EXCEPT !.status = status]
    BY <1>2 DEF SourceRecovered
  <2>2. [row EXCEPT !.status = status].status = status
        /\ [row EXCEPT !.status = status].applied = row.applied
        /\ [row EXCEPT !.status = status].revision = row.revision
    BY <1>1 DEF Snapshot
  <2>3. status = "synced" => row.applied >= row.revision
    BY <1>1 DEF Snapshot
  <2>4. status # "error"
    OBVIOUS
  <2>. HIDE DEF status
  <2>. QED BY <1>1, <1>2, <2>1, <2>2, <2>3, <2>4 DEF Shown
<1>3. CASE row.status \notin {"protected", "partial"}
    BY <1>3 DEF SourceRecovered
<1>. QED BY <1>2, <1>3

LEMMA UploadedShown ==
    ASSUME NEW row, NEW cursors, Shown(row, cursors), NEW c \in Clients,
           NEW claimed, NEW withConfig
    PROVE  LET taken == Uploaded(row, c, claimed, withConfig)
           IN  /\ Shown(taken, cursors)
               /\ claimed => /\ taken.applied = row.applied
                             /\ taken.status = "synced" => row.status = "synced"
                             /\ taken.status = "synced" => taken.revision = row.revision
               /\ taken.status \in {row.status, "pending", "synced"}
<1>. DEFINE new == IF claimed
                   THEN [status |-> "pending", revision |-> 1, applied |-> 0, owner |-> c]
                   ELSE [status |-> "synced", revision |-> 1, applied |-> 1, owner |-> c]
            fresh == IF row.status = "none" THEN new ELSE row
            accepted == withConfig /\ ~claimed /\ fresh.revision <= fresh.applied
            taken == Uploaded(row, c, claimed, withConfig)
<1>1. RowOK(taken)
    BY UploadedFollows DEF Shown, Follows
<1>2. /\ fresh \in Snapshot
      /\ fresh.status = "synced" => fresh.applied >= fresh.revision
      /\ fresh.status = "error" => row.status = "error"
      /\ claimed => /\ fresh.applied = row.applied
                    /\ fresh.status = "synced" => fresh = row
      /\ fresh.status \in {row.status, "pending", "synced"}
    BY DEF Shown, RowOK, Snapshot, Statuses
<1>3. taken = [fresh EXCEPT !.owner = c, !.status = IF accepted THEN "synced" ELSE @]
    BY DEF Uploaded
<1>. HIDE DEF fresh
<1>4. /\ taken.status = IF accepted THEN "synced" ELSE fresh.status
      /\ taken.applied = fresh.applied /\ taken.revision = fresh.revision
    BY <1>2, <1>3 DEF Snapshot
<1>5. accepted => ~claimed /\ fresh.applied >= fresh.revision
    BY <1>2 DEF Snapshot
<1>. HIDE DEF accepted, taken
<1>6. Shown(taken, cursors)
    BY <1>1, <1>2, <1>4, <1>5 DEF Shown
<1>. QED BY <1>2, <1>4, <1>5, <1>6 DEF taken

\* The rows and cursors an exchange flushed first.
LEMMA DiscoveryShown ==
    ASSUME PortalOK, NEW q \in ExchangeRequest, NEW g \in Groups,
           Shown(snapshot[g], clientSync[g]), Reported(snapshot[g], clientSync[g])
    PROVE  /\ Shown(DiscoveredRows(q)[g], ExchangedSync(q)[g])
           /\ Reported(DiscoveredRows(q)[g], ExchangedSync(q)[g])
           /\ \/ DiscoveredRows(q)[g] = snapshot[g]
              \/ DiscoveredRows(q)[g].status = "pending"
           /\ DiscoveredRows(q)[g].applied <= snapshot[g].applied
<1>. DEFINE row == DiscoveredRows(q)[g]
            cursors == ExchangedSync(q)[g]
<1>1. q.from \in Clients /\ RowOK(snapshot[g]) /\ snapshot[g].applied \in Nat
    BY DEF ExchangeRequest, PortalOK, RowOK, Snapshot
<1>2. /\ row = snapshot[g] \/ row.status = "pending"
      /\ row.applied <= snapshot[g].applied
    BY <1>1, AdoptedFacts DEF DiscoveredRows
<1>3. /\ RowOK(row) /\ CursorsOK(row, cursors)
      /\ row.revision = snapshot[g].revision \/ snapshot[g].revision = 0
      /\ \A d \in Clients :
            cursors[d] = clientSync[g][d]
            \/ (~clientSync[g][d].exists /\ cursors[d].failed = 0)
  <2>1. \A r : CursorAt(r).failed = 0
    BY DEF CursorAt
  <2>. QED BY <2>1, DiscoveryFollows DEF Follows
<1>4. row.revision >= snapshot[g].revision
    BY <1>1, <1>3 DEF RowOK, Snapshot
<1>. HIDE DEF row, cursors
<1>5. Shown(row, cursors)
    BY <1>2, <1>3 DEF Shown
<1>6. Reported(row, cursors)
  <2>1. clientSync[g] \in [Clients -> Cursor] /\ row.revision \in Nat
        /\ snapshot[g].revision \in Nat
    BY <1>1, <1>3 DEF PortalOK, CursorsOK, RowOK, Snapshot
  <2>. QED BY <1>3, <1>4, <2>1 DEF Reported, Cursor
<1>. QED BY <1>2, <1>5, <1>6 DEF row, cursors

\* ... what the sources and the items make of them ...
LEMMA OfferedShown ==
    ASSUME PortalOK, NEW q \in ExchangeRequest, NEW g \in Groups,
           Shown(snapshot[g], clientSync[g]), Reported(snapshot[g], clientSync[g])
    PROVE  /\ Shown(HeartbeatRows(q)[g], ExchangedSync(q)[g])
           /\ g \in bound =>
                HeartbeatRows(q)[g].applied = DiscoveredRows(q)[g].applied
           /\ g \in bound /\ HeartbeatRows(q)[g].status = "synced" =>
                /\ HeartbeatRows(q)[g].revision = DiscoveredRows(q)[g].revision
                /\ \/ DiscoveredRows(q)[g].status = "synced"
                   \/ /\ DiscoveredRows(q)[g].status \in {"protected", "partial"}
                      /\ DiscoveredRows(q)[g].applied >= DiscoveredRows(q)[g].revision
<1>. DEFINE found == DiscoveredRows(q)[g]
            cursors == ExchangedSync(q)[g]
            uploaded == UploadedRows(q)[g]
            taken(row) == Uploaded(row, q.from, g \in bound, g \in q.configs)
<1>1. q.from \in Clients /\ Shown(found, cursors)
    BY DiscoveryShown DEF ExchangeRequest
<1>2. PICK row \in {found, SourceRecovered(found), [found EXCEPT !.status = "partial"]} :
          uploaded \in {row, taken(row), [taken(row) EXCEPT !.status = "partial"]}
    BY OfferedCases
<1>3. HeartbeatRows(q)[g] \in {uploaded, [uploaded EXCEPT !.status = "protected"]}
    BY DEF HeartbeatRows
<1>. HIDE DEF found, cursors, uploaded
<1>4. /\ Shown(row, cursors)
      /\ row.applied = found.applied /\ row.revision = found.revision
      /\ row.status = "synced" =>
            \/ found.status = "synced"
            \/ found.status \in {"protected", "partial"} /\ found.applied >= found.revision
  <2>1. CASE row = found
    BY <1>1, <2>1
  <2>2. CASE row = SourceRecovered(found)
    BY <1>1, <2>2, SourceRecoveredShown
  <2>3. CASE row = [found EXCEPT !.status = "partial"]
    <3>1. "partial" # "synced" /\ "partial" \in {"pending", "protected", "partial"}
      OBVIOUS
    <3>. QED BY <1>1, <2>3, <3>1, MarkedShown
  <2>. HIDE DEF taken
  <2>. QED BY <1>2, <2>1, <2>2, <2>3
<1>5. /\ Shown(taken(row), cursors)
      /\ g \in bound => /\ taken(row).applied = row.applied
                        /\ taken(row).status = "synced" => row.status = "synced"
                        /\ taken(row).status = "synced" => taken(row).revision = row.revision
  <2>. DEFINE claimed == g \in bound
              withConfig == g \in q.configs
  <2>. HIDE DEF claimed, withConfig
  <2>1. LET new == Uploaded(row, q.from, claimed, withConfig)
        IN  /\ Shown(new, cursors)
            /\ claimed => /\ new.applied = row.applied
                          /\ new.status = "synced" => row.status = "synced"
                          /\ new.status = "synced" => new.revision = row.revision
    BY <1>1, <1>4, UploadedShown
  <2>. QED BY <2>1 DEF claimed, withConfig
<1>. HIDE DEF taken
<1>6. /\ Shown(uploaded, cursors)
      /\ g \in bound => /\ uploaded.applied = row.applied
                        /\ uploaded.status = "synced" => row.status = "synced"
                        /\ uploaded.status = "synced" => uploaded.revision = row.revision
  <2>. DEFINE new == taken(row)
  <2>1. uploaded \in {row, new, [new EXCEPT !.status = "partial"]}
    BY <1>2
  <2>2. /\ Shown(new, cursors)
        /\ g \in bound => /\ new.applied = row.applied
                          /\ new.status = "synced" => row.status = "synced"
                          /\ new.status = "synced" => new.revision = row.revision
    BY <1>5
  <2>. HIDE DEF new
  <2>3. /\ Shown([new EXCEPT !.status = "partial"], cursors)
        /\ [new EXCEPT !.status = "partial"].applied = new.applied
        /\ [new EXCEPT !.status = "partial"].status # "synced"
    <3>1. "partial" # "synced" /\ "partial" \in {"pending", "protected", "partial"}
      OBVIOUS
    <3>. QED BY <2>2, <3>1, MarkedShown
  <2>4. CASE uploaded = [new EXCEPT !.status = "partial"]
    BY <2>2, <2>3, <2>4
  <2>. QED BY <1>4, <2>1, <2>2, <2>4
<1>7. /\ Shown([uploaded EXCEPT !.status = "protected"], cursors)
      /\ [uploaded EXCEPT !.status = "protected"].applied = uploaded.applied
      /\ [uploaded EXCEPT !.status = "protected"].status # "synced"
    BY <1>6, MarkedShown
<1>. QED BY <1>3, <1>4, <1>6, <1>7 DEF found, cursors

\* ... and what the failure reports make of the result.
LEMMA ExchangeShown ==
    ASSUME PortalOK, NEW q \in ExchangeRequest, NEW g \in Groups,
           Shown(snapshot[g], clientSync[g]), Reported(snapshot[g], clientSync[g])
    PROVE  /\ Shown(RowsAfterExchange(q)[g], SyncAfterExchange(q)[g])
           /\ Reported(RowsAfterExchange(q)[g], SyncAfterExchange(q)[g])
           /\ \/ Level(RowsAfterExchange(q)[g], SyncAfterExchange(q)[g])
              \/ /\ RowsAfterExchange(q)[g] = HeartbeatRows(q)[g]
                 /\ SyncAfterExchange(q)[g] = ExchangedSync(q)[g]
<1>. DEFINE row == HeartbeatRows(q)[g]
            before == ExchangedSync(q)[g]
            after == [before EXCEPT ![q.from].failed = row.revision]
<1>1. /\ q.from \in Clients /\ Shown(row, before)
      /\ Reported(DiscoveredRows(q)[g], before)
      /\ DiscoveredRows(q)[g].revision \in Nat /\ row.revision \in Nat
      /\ before \in [Clients -> Cursor]
    BY DiscoveryShown, OfferedShown, DiscoveryFollows
       DEF ExchangeRequest, Follows, Shown, RowOK, Snapshot, CursorsOK
<1>2. row.revision >= DiscoveredRows(q)[g].revision
  <2>1. Follows(DiscoveredRows(q)[g], UploadedRows(q)[g]) /\ Follows(UploadedRows(q)[g], row)
    BY ExchangeFollows
  <2>. QED BY <1>1, <2>1 DEF Follows
<1>3. Reported(row, before)
    BY <1>1, <1>2 DEF Reported, Cursor
<1>4. CASE FailureAccepted(q, g)
  <2>1. /\ SyncAfterExchange(q)[g] = after
        /\ RowsAfterExchange(q)[g] = Summarised(row, SyncAfterExchange(q)[g])
        /\ before[q.from].exists /\ before[q.from].applied < row.revision
    BY <1>4 DEF FailureAccepted, SyncAfterExchange, RowsAfterExchange
  <2>2. /\ RowOK(row) /\ CursorsOK(row, SyncAfterExchange(q)[g])
        /\ RowsAfterExchange(q)[g].revision = row.revision
    BY <1>1, <2>1, ExchangeFollows, SummarisedFollows DEF Shown
  <2>. HIDE DEF row, before
  <2>3. after[q.from].exists
    BY <1>1, <2>1 DEF Cursor
  <2>4. Reported(row, after)
    BY <1>1, <1>3, <2>1 DEF Reported, Cursor
  <2>. HIDE DEF after
  <2>. QED BY <1>1, <2>1, <2>2, <2>3, <2>4, SummarisedMeans DEF Reported
<1>5. CASE ~FailureAccepted(q, g)
    BY <1>1, <1>3, <1>5 DEF SyncAfterExchange, RowsAfterExchange
<1>. QED BY <1>4, <1>5

\* A claimed row comes to be shown as synchronized while a client is behind only
\* where SourceRecovered trusts what the row records.
LEMMA ExchangeRecovers ==
    ASSUME PortalOK, NEW q \in ExchangeRequest, NEW g \in bound,
           Shown(snapshot[g], clientSync[g]), Reported(snapshot[g], clientSync[g]),
           RowsAfterExchange(q)[g].status = "synced",
           Behind(RowsAfterExchange(q)[g], SyncAfterExchange(q)[g]),
           ~(snapshot[g].status = "synced" /\ Behind(snapshot[g], clientSync[g]))
    PROVE  /\ snapshot[g].status \in {"protected", "partial"}
           /\ snapshot[g].applied >= RowsAfterExchange(q)[g].revision
<1>1. g \in Groups /\ SyncAfterExchange(q)[g] \in [Clients -> Cursor]
  <2>1. g \in Groups
    BY DEF PortalOK
  <2>. QED BY <2>1, ExchangeFollows DEF CursorsOK
<1>2. /\ RowsAfterExchange(q)[g] = HeartbeatRows(q)[g]
      /\ SyncAfterExchange(q)[g] = ExchangedSync(q)[g]
    BY <1>1, ExchangeShown, LevelMeans
<1>. DEFINE found == DiscoveredRows(q)[g]
<1>3. /\ RowsAfterExchange(q)[g].revision = found.revision
      /\ \/ found.status = "synced"
         \/ found.status \in {"protected", "partial"} /\ found.applied >= found.revision
    BY <1>1, <1>2, OfferedShown
<1>4. found = snapshot[g]
    BY <1>1, <1>3, DiscoveryShown
<1>5. found.status # "synced"
  <2>1. SUFFICES ASSUME found.status = "synced" PROVE FALSE
    OBVIOUS
  <2>2. \A d \in Clients :
            \/ ExchangedSync(q)[g][d] = clientSync[g][d]
            \/ \E r \in {found.applied, found.revision} : ExchangedSync(q)[g][d] = CursorAt(r)
    BY <1>1, DiscoveryFollows
  <2>3. \A r : CursorAt(r).applied = r
    BY DEF CursorAt
  <2>4. found.applied >= found.revision /\ found.applied \in Nat /\ found.revision \in Nat
    BY <1>4, <2>1 DEF Shown, RowOK, Snapshot
  <2>. HIDE DEF found
  <2>5. \A d \in Clients : ExchangedSync(q)[g][d].exists =>
            ~(ExchangedSync(q)[g][d].applied < found.revision)
    <3>1. \A d \in Clients : clientSync[g][d].exists =>
              ~(clientSync[g][d].applied < found.revision)
      BY <1>4, <2>1 DEF Behind
    <3>. QED BY <2>2, <2>3, <2>4, <3>1
  <2>. QED BY <1>2, <1>3, <2>5 DEF Behind
<1>. QED BY <1>3, <1>4, <1>5

\* What one step does to the rows and the cursors, whoever takes it: nothing, ...
RowsKept == bound' \subseteq bound /\ UNCHANGED <<snapshot, clientSync>>

\* ... an exchange, ...
Exchanged(q) ==
    /\ bound' = bound
    /\ snapshot' = RowsAfterExchange(q)
    /\ clientSync' = SyncAfterExchange(q)

\* ... the summary of a group after an ACK or a pull, which forget the report of
\* their client, ...
CursorWritten(h, cursors) ==
    /\ bound' = bound
    /\ clientSync' = [clientSync EXCEPT ![h] = cursors]
    /\ snapshot' = [snapshot EXCEPT ![h] = Summarised(snapshot[h], cursors)]
    /\ snapshot'[h].revision = snapshot[h].revision
    /\ \E c \in Clients : cursors[c].exists
    /\ \A c \in Clients : cursors[c] = clientSync[h][c] \/ cursors[c].failed = 0

\* ... the ACK of a group without a web account, ...
UnclaimedCompleted(h, c) ==
    /\ h \notin bound
    /\ bound' = bound
    /\ clientSync' = clientSync
    /\ snapshot' = [snapshot EXCEPT ![h] = Completed(snapshot[h], c)]

\* ... or a browser, which leaves the row waiting for its clients.
Awaited(h) ==
    /\ bound' \subseteq bound \union {h}
    /\ clientSync' = clientSync
    /\ snapshot'[h].status = "pending"
    /\ snapshot'[h].applied = snapshot[h].applied
    /\ snapshot'[h].revision >= snapshot[h].revision
    /\ \A g \in Groups \ {h} : snapshot'[g] = snapshot[g]

LEMMA PortalWrites ==
    ASSUME IInv, [Next]_vars
    PROVE  /\ bound \ Rebindable \subseteq bound'
           /\ \/ RowsKept
              \/ \E q \in ExchangeRequest : Exchanged(q)
              \/ \E h \in Groups : \E cursors : CursorWritten(h, cursors)
              \/ \E h \in Groups, c \in Clients : UnclaimedCompleted(h, c)
              \/ \E h \in Groups : Awaited(h)
<1>1. ASSUME NEW live \in BOOLEAN, NEW q \in sent \union late, HandleExchange(q, live)
      PROVE  bound' = bound /\ (RowsKept \/ (q \in ExchangeRequest /\ Exchanged(q)))
  <2>1. q \in ExchangeRequest
    BY <1>1 DEF HandleExchange, IInv, TypeOK, ExchangeRequest, AckRequest, PullRequest
  <2>. QED BY <1>1, <2>1 DEF HandleExchange, RowsKept, Exchanged
<1>2. ASSUME NEW live \in BOOLEAN, NEW q \in sent \union late, HandleAck(q, live)
      PROVE  /\ bound' = bound
             /\ \/ RowsKept
                \/ \E h \in Groups : \E cursors : CursorWritten(h, cursors)
                \/ \E h \in Groups, c \in Clients : UnclaimedCompleted(h, c)
  <2>1. /\ \A h \in Groups : snapshot'[h].revision = snapshot[h].revision
        /\ bound' = bound /\ q.group \in Groups /\ q.from \in Clients
    BY <1>2, HandleAckInvariant DEF HandleAck, AckRequest
  <2>2. CASE q.group \in bound /\ AcknowledgeClaimed(q)
    <3>. DEFINE old == clientSync[q.group]
                new == Acknowledged(old[q.from], q.revision, snapshot[q.group])
                cursors == [old EXCEPT ![q.from] = new]
    <3>1. /\ clientSync' = [clientSync EXCEPT ![q.group] = cursors]
          /\ snapshot' = [snapshot EXCEPT ![q.group] =
                                Summarised(snapshot[q.group], cursors)]
      BY <2>2 DEF AcknowledgeClaimed
    <3>2. new.exists /\ new.failed = 0 /\ old \in [Clients -> Cursor]
      BY <2>1, <2>2 DEF AcknowledgeClaimed, Acknowledged, IInv, TypeOK, Cursor
    <3>. HIDE DEF new, old
    <3>3. /\ \E c \in Clients : cursors[c].exists
          /\ \A c \in Clients : cursors[c] = old[c] \/ cursors[c].failed = 0
      BY <2>1, <3>2
    <3>. HIDE DEF cursors
    <3>4. CursorWritten(q.group, cursors)
      BY <2>1, <3>1, <3>3 DEF CursorWritten, old
    <3>. QED BY <2>1, <3>4
  <2>3. CASE q.group \notin bound /\ AcknowledgeUnclaimed(q)
    BY <2>1, <2>3 DEF AcknowledgeUnclaimed, RowsKept, UnclaimedCompleted
  <2>4. CASE UNCHANGED <<snapshot, clientSync>>
    BY <2>1, <2>4 DEF RowsKept
  <2>. QED BY <1>2, <2>2, <2>3, <2>4 DEF HandleAck
<1>3. ASSUME NEW live \in BOOLEAN, NEW q \in sent \union late, HandlePull(q, live)
      PROVE  /\ bound' = bound
             /\ \/ RowsKept
                \/ \E h \in Groups : \E cursors : CursorWritten(h, cursors)
  <2>1. /\ \A h \in Groups : snapshot'[h].revision = snapshot[h].revision
        /\ bound' = bound /\ q.group \in Groups /\ q.from \in Clients
    BY <1>3, HandlePullInvariant DEF HandlePull, PullRequest
  <2>2. CASE UNCHANGED <<snapshot, clientSync>>
    BY <2>1, <2>2 DEF RowsKept
  <2>3. CASE ~UNCHANGED <<snapshot, clientSync>>
    <3>. DEFINE old == clientSync[q.group]
                new == Reopened(old[q.from], snapshot[q.group].revision)
                cursors == [old EXCEPT ![q.from] = new]
    <3>1. /\ clientSync' = [clientSync EXCEPT ![q.group] = cursors]
          /\ snapshot' = [snapshot EXCEPT ![q.group] =
                                Summarised(snapshot[q.group], cursors)]
      BY <1>3, <2>3 DEF HandlePull
    <3>2. new.exists /\ new.failed = 0 /\ old \in [Clients -> Cursor]
      BY <2>1 DEF Reopened, IInv, TypeOK
    <3>. HIDE DEF new, old
    <3>3. /\ \E c \in Clients : cursors[c].exists
          /\ \A c \in Clients : cursors[c] = old[c] \/ cursors[c].failed = 0
      BY <2>1, <3>2
    <3>. HIDE DEF cursors
    <3>4. CursorWritten(q.group, cursors)
      BY <2>1, <3>1, <3>3 DEF CursorWritten, old
    <3>. QED BY <2>1, <3>4
  <2>. QED BY <2>2, <2>3
<1>4. ASSUME NEW h \in Groups, SaveWebConfig(h) \/ ClaimGroup(h)
      PROVE  bound \subseteq bound' /\ Awaited(h)
  <2>1. snapshot[h] \in Snapshot /\ snapshot \in [Groups -> Snapshot]
    BY DEF IInv, TypeOK
  <2>2. CASE SaveWebConfig(h)
    BY <2>1, <2>2 DEF SaveWebConfig, Snapshot, Awaited
  <2>3. CASE ClaimGroup(h)
    BY <2>1, <2>3 DEF ClaimGroup, Snapshot, Awaited
  <2>. QED BY <1>4, <2>2, <2>3
<1>5. ASSUME NEW h \in Groups, UnbindGroup(h)
      PROVE  bound \ Rebindable \subseteq bound' /\ RowsKept
    BY <1>5 DEF UnbindGroup, RowsKept
<1>6. ASSUME NEW c \in Clients, SetBlocked(c) \/ Windows(c)
      PROVE  bound' = bound /\ RowsKept
    BY <1>6 DEF Windows, SendExchange, ReceiveBlocked, ReceiveNothing, ReceiveAndStore,
                ReceiveAndFail, ReceiveExchange, SendAck, ReceiveAck, Retry, GiveUp,
                SendPull, ReceivePull, GiveUpPull, Restart, server, SetBlocked, RowsKept
<1>7. CASE UNCHANGED vars
    BY <1>7 DEF vars, server, RowsKept
<1>8. CASE Portal
    BY <1>1, <1>2, <1>3, <1>4, <1>5, <1>6, <1>8 DEF Portal
<1>9. CASE \E c \in Clients : Windows(c)
    BY <1>6, <1>9
<1>. QED BY <1>7, <1>8, <1>9 DEF Next

\* Where a row is summarised, it shows what its cursors are.
LEMMA CursorWrittenShown ==
    ASSUME IInv, ShownInv, PortalOK', NEW h \in Groups, NEW cursors,
           CursorWritten(h, cursors)
    PROVE  /\ Shown(snapshot'[h], clientSync'[h])
           /\ Reported(snapshot'[h], clientSync'[h])
           /\ Level(snapshot'[h], clientSync'[h])
           /\ clientSync'[h] \in [Clients -> Cursor]
           /\ \A g \in Groups \ {h} :
                snapshot'[g] = snapshot[g] /\ clientSync'[g] = clientSync[g]
<1>1. /\ snapshot'[h] = Summarised(snapshot[h], cursors)
      /\ clientSync'[h] = cursors
      /\ \A g \in Groups \ {h} :
            snapshot'[g] = snapshot[g] /\ clientSync'[g] = clientSync[g]
    BY DEF CursorWritten, IInv, TypeOK
<1>2. RowOK(snapshot[h]) /\ CursorsOK(snapshot[h], cursors)
  <2>1. CursorsOK(snapshot'[h], cursors)
    BY <1>1 DEF PortalOK
  <2>. QED BY <2>1, InvariantPortalOK DEF CursorWritten, CursorsOK, PortalOK
<1>3. /\ Shown(snapshot'[h], cursors) /\ Level(snapshot'[h], cursors)
    BY <1>1, <1>2, SummarisedMeans DEF CursorWritten
<1>4. Reported(snapshot'[h], cursors)
  <2>1. Reported(snapshot[h], clientSync[h])
    BY DEF ShownInv
  <2>. QED BY <2>1 DEF Reported, CursorWritten
<1>. QED BY <1>1, <1>2, <1>3, <1>4 DEF CursorsOK

LEMMA ShownStep ==
    ASSUME IInv, ShownInv, [Next]_vars
    PROVE  ShownInv'
<1>1. PortalOK /\ PortalOK' /\ IInv'
    BY NextInvariant, InvariantPortalOK, PTL
<1>2. ASSUME NEW q \in ExchangeRequest, Exchanged(q)
      PROVE  ShownInv'
    BY <1>1, <1>2, ExchangeShown DEF ShownInv, Exchanged
<1>3. ASSUME NEW h \in Groups, NEW cursors, CursorWritten(h, cursors)
      PROVE  ShownInv'
    BY <1>1, <1>3, CursorWrittenShown DEF ShownInv
<1>4. ASSUME NEW h \in Groups, NEW c \in Clients, UnclaimedCompleted(h, c)
      PROVE  ShownInv'
  <2>. DEFINE row == Completed(snapshot[h], c)
  <2>1. row.status = "synced" /\ row.applied = row.revision
        /\ row.revision = snapshot[h].revision /\ row.revision \in Nat
    BY DEF Completed, IInv, TypeOK, Snapshot
  <2>2. /\ snapshot'[h] = row /\ RowOK(row) /\ clientSync' = clientSync
        /\ \A g \in Groups \ {h} : snapshot'[g] = snapshot[g]
    <3>1. /\ snapshot'[h] = row /\ clientSync' = clientSync
          /\ \A g \in Groups \ {h} : snapshot'[g] = snapshot[g]
      BY <1>4 DEF UnclaimedCompleted, IInv, TypeOK
    <3>2. RowOK(snapshot'[h])
      BY <1>1 DEF PortalOK
    <3>. QED BY <3>1, <3>2
  <2>. HIDE DEF row
  <2>3. Shown(snapshot'[h], clientSync'[h])
    BY <2>1, <2>2 DEF Shown
  <2>4. Reported(snapshot'[h], clientSync'[h])
    BY <2>1, <2>2 DEF ShownInv, Reported
  <2>. QED BY <2>2, <2>3, <2>4 DEF ShownInv
<1>5. ASSUME NEW h \in Groups, Awaited(h)
      PROVE  ShownInv'
  <2>1. Shown(snapshot'[h], clientSync'[h])
    BY <1>1, <1>5 DEF Awaited, Shown, PortalOK
  <2>2. Reported(snapshot'[h], clientSync'[h])
    <3>1. /\ snapshot[h].revision \in Nat /\ snapshot'[h].revision \in Nat
          /\ clientSync[h] \in [Clients -> Cursor]
      BY <1>1 DEF PortalOK, Snapshot
    <3>2. Reported(snapshot[h], clientSync[h])
      BY DEF ShownInv
    <3>. QED BY <1>5, <3>1, <3>2 DEF Awaited, Reported, Cursor
  <2>. QED BY <1>5, <2>1, <2>2 DEF ShownInv, Awaited
<1>6. CASE RowsKept
    BY <1>6 DEF RowsKept, ShownInv
<1>. QED BY <1>2, <1>3, <1>4, <1>5, <1>6, PortalWrites

LEMMA InitialRows ==
    ASSUME Init, NEW g \in Groups
    PROVE  /\ snapshot[g].status \in {"none", "synced"}
           /\ snapshot[g].applied >= snapshot[g].revision
           /\ \A c \in Clients : ~clientSync[g][c].exists
<1>1. snapshot[g] \in
            {NoSnapshot,
             [NoSnapshot EXCEPT !.status = "synced"],
             [status |-> "synced", revision |-> 1, applied |-> 1, owner |-> NoClient]}
    BY DEF Init
<1>2. \A c \in Clients : ~clientSync[g][c].exists
    BY DEF Init, NoCursor, CursorAt
<1>. QED BY <1>1, <1>2 DEF NoSnapshot

LEMMA ShownInitially == Init => ShownInv
<1>. SUFFICES ASSUME Init, NEW g \in Groups
              PROVE  Shown(snapshot[g], clientSync[g]) /\ Reported(snapshot[g], clientSync[g])
    BY DEF ShownInv
<1>1. RowOK(snapshot[g])
    BY InitInvariant, InvariantPortalOK DEF PortalOK
<1>. QED BY <1>1, InitialRows DEF Shown, Reported

THEOREM ShownInvariance == Spec => []ShownInv
BY ShownInitially, ShownStep, Invariance, PTL DEF Spec

\* The error that record_bot_sync_failures and the summary show is that of a
\* revision its client has still not applied: an ACK, a pull, a save or an
\* exchange in between never leaves one that is settled.
THEOREM ErrorsOutstanding == Spec => []ErrorShownIsOutstanding
<1>1. IInv /\ ShownInv => ErrorShownIsOutstanding
    BY DEF ShownInv, Shown, Reported, ErrorShownIsOutstanding
<1>. QED BY <1>1, Invariance, ShownInvariance, PTL

-----------------------------------------------------------------------------
(* What "synced" means.                                                     *)
(*                                                                         *)
(* A row is marked when a local source is unreadable, and one that leaves  *)
(* its mark is judged by what the row records as applied, because the      *)
(* summary that looked at the clients is lost (DiscoveredRows).  No other  *)
(* operation shows a claimed row as synchronized too soon.  Where the web  *)
(* accounts never go, what a row records is never more than the slowest    *)
(* client has (Level); where every source can be read, no row is marked.   *)

LEMMA RecoveryStep ==
    ASSUME IInv, ShownInv, [Next]_vars, NEW g \in Groups,
           ShownTooSoon(g)', ~ShownTooSoon(g)
    PROVE  /\ snapshot[g].status \in {"protected", "partial"}
           /\ snapshot[g].applied >= snapshot'[g].revision
<1>1. PortalOK /\ PortalOK' /\ IInv'
    BY NextInvariant, InvariantPortalOK, PTL
<1>2. /\ g \in bound' /\ snapshot'[g].status = "synced"
      /\ Behind(snapshot'[g], clientSync'[g])
      /\ g \in bound =>
            ~(snapshot[g].status = "synced" /\ Behind(snapshot[g], clientSync[g]))
    BY DEF ShownTooSoon, Behind
<1>3. ~(/\ g \in bound /\ snapshot'[g] = snapshot[g]
        /\ clientSync'[g] = clientSync[g])
    BY <1>2
<1>4. ~RowsKept
    BY <1>2, <1>3 DEF RowsKept
<1>5. ASSUME NEW h \in Groups, NEW cursors, CursorWritten(h, cursors)
      PROVE  FALSE
  <2>1. g = h
    BY <1>1, <1>2, <1>3, <1>5, CursorWrittenShown DEF CursorWritten
  <2>. QED BY <1>1, <1>2, <1>5, <2>1, CursorWrittenShown, LevelMeans
<1>6. ASSUME NEW h \in Groups, NEW c \in Clients, UnclaimedCompleted(h, c)
      PROVE  FALSE
    BY <1>2, <1>3, <1>6 DEF UnclaimedCompleted, IInv, TypeOK
<1>7. ASSUME NEW h \in Groups, Awaited(h)
      PROVE  FALSE
    BY <1>2, <1>3, <1>7 DEF Awaited
<1>8. PICK q \in ExchangeRequest : Exchanged(q)
    BY <1>4, <1>5, <1>6, <1>7, PortalWrites
<1>9. /\ g \in bound /\ snapshot'[g] = RowsAfterExchange(q)[g]
      /\ clientSync'[g] = SyncAfterExchange(q)[g]
    BY <1>2, <1>8 DEF Exchanged
<1>. QED BY <1>1, <1>2, <1>9, ExchangeRecovers DEF ShownInv

\* A claimed group comes to be shown as synchronized before its clients are by
\* one way of apply_bot_exchange only, which leaves a protected state by what
\* the row records as applied.
THEOREM TooSoonByRecovery == Spec => TooSoonOnlyByRecovery
<1>1. ASSUME IInv, ShownInv, [Next]_vars
      PROVE  [\A g \in Groups :
                ShownTooSoon(g)' /\ ~ShownTooSoon(g) =>
                    /\ snapshot[g].status \in {"protected", "partial"}
                    /\ snapshot[g].applied >= snapshot'[g].revision]_vars
    BY <1>1, RecoveryStep
<1>. QED BY <1>1, Invariance, ShownInvariance, PTL DEF Spec, TooSoonOnlyByRecovery

\* Without rebinding, every row is level with its clients.
AllLevel ==
    /\ bound = Groups
    /\ \A g \in Groups : Level(snapshot[g], clientSync[g])

LEMMA ExchangeLevel ==
    ASSUME PortalOK, ShownInv, NEW q \in ExchangeRequest, NEW g \in bound,
           Level(snapshot[g], clientSync[g])
    PROVE  Level(RowsAfterExchange(q)[g], SyncAfterExchange(q)[g])
<1>1. /\ g \in Groups /\ Shown(snapshot[g], clientSync[g])
      /\ Reported(snapshot[g], clientSync[g])
    BY DEF PortalOK, ShownInv
<1>. DEFINE found == DiscoveredRows(q)[g]
            cursors == ExchangedSync(q)[g]
<1>2. /\ found.applied <= snapshot[g].applied
      /\ HeartbeatRows(q)[g].applied = found.applied
      /\ found.applied \in Nat /\ snapshot[g].applied \in Nat
      /\ found.revision \in Nat /\ found.applied <= found.revision
    BY <1>1, DiscoveryShown, OfferedShown DEF Shown, RowOK, Snapshot
<1>3. \A d \in Clients :
            \/ cursors[d] = clientSync[g][d]
            \/ \E r \in {found.applied, found.revision} : cursors[d] = CursorAt(r)
    BY <1>1, DiscoveryFollows
<1>4. \A r : CursorAt(r).applied = r
    BY DEF CursorAt
<1>5. \A d \in Clients : clientSync[g][d].exists =>
            snapshot[g].applied <= clientSync[g][d].applied
            /\ clientSync[g][d].applied \in Nat
    BY <1>1 DEF Level, PortalOK, Cursor
<1>. HIDE DEF found, cursors
<1>6. \A d \in Clients : cursors[d].exists => found.applied <= cursors[d].applied
    BY <1>2, <1>3, <1>4, <1>5
<1>7. Level(HeartbeatRows(q)[g], cursors)
    BY <1>2, <1>6 DEF Level
<1>. QED BY <1>1, <1>7, ExchangeShown DEF cursors

LEMMA LevelStep ==
    ASSUME Rebindable = {}, IInv, ShownInv, AllLevel, [Next]_vars
    PROVE  AllLevel'
<1>1. PortalOK /\ PortalOK' /\ IInv'
    BY NextInvariant, InvariantPortalOK, PTL
<1>2. bound' = Groups
    BY <1>1, PortalWrites DEF AllLevel, PortalOK
<1>3. ASSUME NEW q \in ExchangeRequest, Exchanged(q)
      PROVE  AllLevel'
    BY <1>1, <1>2, <1>3, ExchangeLevel DEF AllLevel, Exchanged
<1>4. ASSUME NEW h \in Groups, NEW cursors, CursorWritten(h, cursors)
      PROVE  AllLevel'
    BY <1>1, <1>2, <1>4, CursorWrittenShown DEF AllLevel
<1>5. ASSUME NEW h \in Groups, NEW c \in Clients, UnclaimedCompleted(h, c)
      PROVE  AllLevel'
    BY <1>5 DEF AllLevel, UnclaimedCompleted
<1>6. ASSUME NEW h \in Groups, Awaited(h)
      PROVE  AllLevel'
  <2>1. Level(snapshot'[h], clientSync'[h])
    BY <1>6 DEF AllLevel, Awaited, Level
  <2>. QED BY <1>2, <1>6, <2>1 DEF AllLevel, Awaited
<1>7. CASE RowsKept
    BY <1>2, <1>7 DEF RowsKept, AllLevel
<1>. QED BY <1>3, <1>4, <1>5, <1>6, <1>7, PortalWrites

\* Where every source can be read, no row is marked.
Marks == {"protected", "partial"}

NoneMarked == \A g \in Groups : snapshot[g].status \notin Marks

LEMMA SummarisedUnmarked ==
    ASSUME NEW row \in Snapshot, NEW cursors, row.status \notin Marks
    PROVE  Summarised(row, cursors).status \notin Marks
<1>. DEFINE known == {c \in Clients : cursors[c].exists}
            slowest == Min({cursors[c].applied : c \in known})
            failing == \E c \in known : cursors[c].failed > 0
            status == CASE slowest >= row.revision -> "synced"
                        [] slowest < row.revision /\ failing -> "error"
                        [] OTHER -> "pending"
<1>1. Summarised(row, cursors) =
            IF known = {} THEN row ELSE [row EXCEPT !.applied = slowest, !.status = status]
    BY DEF Summarised
<1>2. status \in {"synced", "error", "pending"}
  <2>. HIDE DEF slowest, failing
  <2>. QED OBVIOUS
<1>. HIDE DEF known, slowest, status
<1>. QED BY <1>1, <1>2 DEF Marks, Snapshot

LEMMA ExchangeUnmarked ==
    ASSUME PortalOK, ShownInv, NEW q \in ExchangeRequest, q.health = "complete",
           NEW g \in Groups, snapshot[g].status \notin Marks
    PROVE  RowsAfterExchange(q)[g].status \notin Marks
<1>1. /\ q.from \in Clients
      /\ Shown(snapshot[g], clientSync[g]) /\ Reported(snapshot[g], clientSync[g])
    BY DEF ExchangeRequest, ShownInv
<1>. DEFINE found == DiscoveredRows(q)[g]
            taken == Uploaded(found, q.from, g \in bound, g \in q.configs)
<1>2. found.status \notin Marks /\ Shown(found, ExchangedSync(q)[g])
    BY <1>1, DiscoveryShown DEF Marks
<1>3. SourceMarkedRows(q)[g] = found /\ ItemRow(q, g) = found
  <2>1. SourceRecovered(found) = found
    BY <1>2 DEF SourceRecovered, Marks
  <2>2. SourceMarkedRows(q)[g] = found
    BY <2>1 DEF SourceMarkedRows, AuthUnreadable
  <2>. QED BY <2>2 DEF ItemRow
<1>4. UploadedRows(q)[g] \in {found, taken}
    BY <1>3 DEF UploadedRows, Unverified
<1>5. HeartbeatRows(q)[g] = UploadedRows(q)[g]
    BY DEF HeartbeatRows
<1>6. taken.status \notin Marks /\ Shown(taken, ExchangedSync(q)[g])
  <2>. HIDE DEF found
  <2>. QED BY <1>1, <1>2, UploadedShown DEF Marks
<1>. HIDE DEF found, taken
<1>7. HeartbeatRows(q)[g] \in Snapshot /\ HeartbeatRows(q)[g].status \notin Marks
    BY <1>2, <1>4, <1>5, <1>6 DEF Shown, RowOK
<1>. QED BY <1>7, SummarisedUnmarked DEF RowsAfterExchange

LEMMA UnmarkedStep ==
    ASSUME Healths \subseteq {"complete"}, IInv, ShownInv, NoneMarked, [Next]_vars
    PROVE  NoneMarked'
<1>1. PortalOK
    BY InvariantPortalOK
<1>2. ASSUME NEW q \in ExchangeRequest, Exchanged(q)
      PROVE  NoneMarked'
  <2>1. q.health = "complete"
    BY DEF ExchangeRequest
  <2>. QED BY <1>1, <1>2, <2>1, ExchangeUnmarked DEF NoneMarked, Exchanged
<1>3. ASSUME NEW h \in Groups, NEW cursors, CursorWritten(h, cursors)
      PROVE  NoneMarked'
  <2>1. Summarised(snapshot[h], cursors).status \notin Marks
    BY SummarisedUnmarked DEF NoneMarked, IInv, TypeOK
  <2>. QED BY <1>3, <2>1 DEF NoneMarked, CursorWritten, IInv, TypeOK
<1>4. ASSUME NEW h \in Groups, NEW c \in Clients, UnclaimedCompleted(h, c)
      PROVE  NoneMarked'
  <2>1. Completed(snapshot[h], c).status = "synced"
    BY DEF Completed, IInv, TypeOK, Snapshot
  <2>. QED BY <1>4, <2>1 DEF NoneMarked, UnclaimedCompleted, IInv, TypeOK, Marks
<1>5. ASSUME NEW h \in Groups, Awaited(h)
      PROVE  NoneMarked'
    BY <1>5 DEF NoneMarked, Awaited, Marks
<1>6. CASE RowsKept
    BY <1>6 DEF RowsKept, NoneMarked
<1>. QED BY <1>2, <1>3, <1>4, <1>5, <1>6, PortalWrites

\* Where no web account ever leaves a group, or every exchange can read its
\* sources, the portal shows a claimed group as synchronized only when no
\* client of it is behind.
THEOREM SyncedIsSynced ==
    ASSUME Rebindable = {} \/ Healths \subseteq {"complete"}
    PROVE  Spec => []SyncedMeansNobodyBehind
<1>. DEFINE LevelPart == Rebindable = {} => AllLevel
            MarkPart == Healths \subseteq {"complete"} =>
                            NoneMarked /\ SyncedMeansNobodyBehind
<1>1. Init => LevelPart /\ MarkPart
  <2>1. ASSUME Init, Rebindable = {} PROVE AllLevel
    BY <2>1, InitialRows DEF AllLevel, Init, Level
  <2>2. ASSUME Init PROVE NoneMarked /\ SyncedMeansNobodyBehind
    BY <2>2, InitialRows DEF NoneMarked, SyncedMeansNobodyBehind, ShownTooSoon, Marks
  <2>. QED BY <2>1, <2>2
<1>2. IInv /\ ShownInv /\ LevelPart /\ MarkPart /\ [Next]_vars => LevelPart' /\ MarkPart'
  <2>1. ASSUME IInv, ShownInv, LevelPart, [Next]_vars PROVE LevelPart'
    BY <2>1, LevelStep
  <2>2. ASSUME IInv, ShownInv, MarkPart, [Next]_vars, Healths \subseteq {"complete"}
        PROVE  NoneMarked' /\ SyncedMeansNobodyBehind'
    <3>1. NoneMarked'
      BY <2>2, UnmarkedStep
    <3>2. \A g \in Groups : ~ShownTooSoon(g)'
      BY <2>2, RecoveryStep DEF SyncedMeansNobodyBehind, NoneMarked, Marks
    <3>. QED BY <3>1, <3>2 DEF SyncedMeansNobodyBehind
  <2>. QED BY <2>1, <2>2
<1>3. IInv /\ ShownInv /\ LevelPart /\ MarkPart => SyncedMeansNobodyBehind
  <2>1. ASSUME IInv, ShownInv, AllLevel PROVE SyncedMeansNobodyBehind
    <3>1. \A g \in Groups :
            snapshot[g].status = "synced" => ~Behind(snapshot[g], clientSync[g])
      BY <2>1, LevelMeans DEF ShownInv, AllLevel, IInv, TypeOK
    <3>. QED BY <3>1 DEF SyncedMeansNobodyBehind, ShownTooSoon, Behind
  <2>. QED BY <2>1
<1>. HIDE DEF LevelPart, MarkPart
<1>. QED BY <1>1, <1>2, <1>3, Invariance, ShownInvariance, PTL DEF Spec

-----------------------------------------------------------------------------
(* Which groups reach a client.                                             *)
(*                                                                         *)
(* A row that takes a client for its owner, a cursor that is created and   *)
(* the scope of an answer all go back to a group the client named; it      *)
(* names the groups on its list, those it holds a projection of, and those *)
(* an answer told it to manage.                                            *)

\* The groups a client may ever come to name.
Reach(c) == IF c \in Pullers THEN Groups ELSE Joined[c]

Named(q) == q.local \union q.known \union q.configs \union q.auths

WithinReach(q) ==
    /\ q.kind = "exchange" => Named(q) \subseteq Reach(q.from)
    /\ q.kind = "ack" => q.group \in Reach(q.from)
    /\ q.kind = "pull" => q.from \in Pullers

RowsWithinReach ==
    \A g \in Groups, c \in Clients :
        snapshot[g].owner = c \/ clientSync[g][c].exists => g \in Reach(c)

LoopWithinReach ==
    \A c \in Clients :
        /\ managed[c] \subseteq Reach(c)
        /\ \A g \in Groups : stored[c][g] > 0 => g \in Reach(c)
        /\ manual[c] # {} \/ pull[c] # NoGroup => c \in Pullers
        /\ change[c] \in Change => change[c].group \in Reach(c)
        /\ reply[c].kind = "exchange" =>
                /\ reply[c].scope \subseteq Reach(c)
                /\ reply[c].change \in Change => reply[c].change.group \in Reach(c)
        /\ call[c] # NoCall => WithinReach(call[c].request)

RequestsWithinReach == \A q \in sent \union late : WithinReach(q)

ReachInv == RowsWithinReach /\ LoopWithinReach /\ RequestsWithinReach

\* What becomes of the owner of a row.
LEMMA OwnerKept ==
    ASSUME NEW row \in Snapshot
    PROVE  /\ \A status : [row EXCEPT !.status = status].owner = row.owner
           /\ \A cursors : Summarised(row, cursors).owner = row.owner
           /\ SourceRecovered(row).owner = row.owner
           /\ \A c : Adopted(row, c).owner \in {row.owner, c}
           /\ \A c, claimed, withConfig : Uploaded(row, c, claimed, withConfig).owner = c
<1>1. \A status : [row EXCEPT !.status = status].owner = row.owner
    BY DEF Snapshot
<1>2. ASSUME NEW cursors PROVE Summarised(row, cursors).owner = row.owner
  <2>1. \A applied, status :
            [row EXCEPT !.applied = applied, !.status = status].owner = row.owner
    BY DEF Snapshot
  <2>. QED BY <2>1 DEF Summarised
<1>3. SourceRecovered(row).owner = row.owner
    BY <1>1 DEF SourceRecovered
<1>4. \A c : Adopted(row, c).owner \in {row.owner, c}
    BY DEF Adopted, Snapshot
<1>5. ASSUME NEW c, NEW claimed, NEW withConfig
      PROVE  Uploaded(row, c, claimed, withConfig).owner = c
    BY DEF Uploaded, Snapshot
<1>. QED BY <1>1, <1>2, <1>3, <1>4, <1>5

\* The client of an exchange takes over rows, and gets cursors and answers, only
\* of groups it names or already had.
LEMMA ExchangeReach ==
    ASSUME PortalOK, RowsWithinReach, NEW q \in ExchangeRequest,
           Named(q) \subseteq Reach(q.from), NEW g \in Groups
    PROVE  /\ \A c \in Clients :
                RowsAfterExchange(q)[g].owner = c \/ SyncAfterExchange(q)[g][c].exists
                    => g \in Reach(c)
           /\ g \in Scope(q) => g \in Reach(q.from)
<1>1. /\ q.from \in Clients /\ snapshot[g] \in Snapshot
      /\ RowOK(snapshot[g]) /\ CursorsOK(snapshot[g], clientSync[g])
    BY DEF ExchangeRequest, PortalOK
<1>. DEFINE Within(row) == \A c \in Clients : row.owner = c => g \in Reach(c)
            adopted == Adopted(snapshot[g], q.from)
<1>2. /\ DiscoveredRows(q)[g] \in Snapshot /\ UploadedRows(q)[g] \in Snapshot
      /\ HeartbeatRows(q)[g] \in Snapshot
    BY DiscoveryFollows, ExchangeFollows DEF Follows, RowOK
<1>3. Within(snapshot[g])
    BY DEF RowsWithinReach
<1>4. /\ Within(adopted) \/ g \notin ClientPortal(q)
      /\ adopted \in Snapshot
  <2>1. adopted.owner \in {snapshot[g].owner, q.from} /\ adopted \in Snapshot
    BY <1>1, OwnerKept, AdoptedFollows DEF Follows, RowOK
  <2>2. g \in ClientPortal(q) => g \in Reach(q.from)
    BY DEF ClientPortal, Discovered, Named
  <2>. QED BY <1>3, <2>1, <2>2
<1>5. Within(DiscoveredRows(q)[g])
    BY <1>3, <1>4 DEF DiscoveredRows
<1>6. Within(UploadedRows(q)[g])
  <2>. DEFINE found == DiscoveredRows(q)[g]
              taken(row) == Uploaded(row, q.from, g \in bound, g \in q.configs)
  <2>1. PICK row \in {found, SourceRecovered(found), [found EXCEPT !.status = "partial"]} :
            \/ UploadedRows(q)[g] = row
            \/ /\ g \in Offered(q)
               /\ UploadedRows(q)[g] \in {taken(row), [taken(row) EXCEPT !.status = "partial"]}
    BY OfferedCases
  <2>2. found \in Snapshot /\ Within(found)
    BY <1>2, <1>5
  <2>. HIDE DEF found
  <2>3. row.owner = found.owner /\ RowOK(row)
    <3>1. RowOK(found)
      BY DiscoveryFollows DEF found, Follows
    <3>2. /\ RowOK([found EXCEPT !.status = "partial"])
          /\ [found EXCEPT !.status = "partial"].owner = found.owner
      BY <2>2, <3>1, OwnerKept, MarkedFollows DEF Follows, Statuses
    <3>3. RowOK(SourceRecovered(found)) /\ SourceRecovered(found).owner = found.owner
      BY <2>2, <3>1, OwnerKept, SourceRecoveredFollows DEF Follows
    <3>. QED BY <2>1, <3>1, <3>2, <3>3
  <2>4. taken(row).owner = q.from /\ [taken(row) EXCEPT !.status = "partial"].owner = q.from
    <3>1. taken(row) \in Snapshot
      BY <1>1, <2>3, UploadedFollows DEF Follows, RowOK
    <3>2. taken(row).owner = q.from
      BY <2>3, OwnerKept DEF RowOK
    <3>. HIDE DEF taken
    <3>. QED BY <3>1, <3>2, OwnerKept
  <2>5. g \in Offered(q) => g \in Reach(q.from)
    BY DEF Offered, Named
  <2>. QED BY <2>1, <2>2, <2>3, <2>4, <2>5
<1>7. Within(HeartbeatRows(q)[g])
  <2>1. HeartbeatRows(q)[g] \in
            {UploadedRows(q)[g], [UploadedRows(q)[g] EXCEPT !.status = "protected"]}
    BY DEF HeartbeatRows
  <2>2. [UploadedRows(q)[g] EXCEPT !.status = "protected"].owner = UploadedRows(q)[g].owner
    BY <1>2, OwnerKept
  <2>. QED BY <1>6, <2>1, <2>2
<1>8. Within(RowsAfterExchange(q)[g])
  <2>1. RowsAfterExchange(q)[g] \in
            {HeartbeatRows(q)[g], Summarised(HeartbeatRows(q)[g], SyncAfterExchange(q)[g])}
    BY DEF RowsAfterExchange
  <2>. QED BY <1>2, <1>7, <2>1, OwnerKept
<1>9. \A c \in Clients : ExchangedSync(q)[g][c].exists => g \in Reach(c)
  <2>1. CASE g \in ClientPortal(q)
    <3>1. \A c \in Clients :
            ExchangedSync(q)[g][c].exists =>
                clientSync[g][c].exists \/ adopted.owner = c \/ c = q.from
      BY <2>1 DEF ExchangedSync, Registered
    <3>2. g \in Reach(q.from)
      BY <2>1 DEF ClientPortal, Discovered, Named
    <3>. QED BY <1>4, <2>1, <3>1, <3>2 DEF RowsWithinReach
  <2>2. CASE g \notin ClientPortal(q)
    BY <2>2 DEF ExchangedSync, RowsWithinReach
  <2>. QED BY <2>1, <2>2
<1>10. \A c \in Clients :
            SyncAfterExchange(q)[g][c].exists => ExchangedSync(q)[g][c].exists
  <2>1. ExchangedSync(q)[g] \in [Clients -> Cursor]
    BY DiscoveryFollows DEF CursorsOK
  <2>2. SyncAfterExchange(q)[g] =
            IF FailureAccepted(q, g)
            THEN [ExchangedSync(q)[g] EXCEPT ![q.from].failed = HeartbeatRows(q)[g].revision]
            ELSE ExchangedSync(q)[g]
    BY DEF SyncAfterExchange
  <2>. QED BY <1>1, <2>1, <2>2 DEF Cursor
<1>11. g \in Scope(q) => g \in Reach(q.from)
    BY <1>1, <1>7, <1>9 DEF Scope, Named
<1>. HIDE DEF Within
<1>. QED BY <1>8, <1>9, <1>10, <1>11 DEF Within

\* The portal's handlers keep the rows, and their answers, within reach.
LEMMA PortalReach ==
    ASSUME IInv, ReachInv, Portal, [Next]_vars
    PROVE  ReachInv'
<1>1. PortalOK /\ IInv'
    BY NextInvariant, InvariantPortalOK
<1>2. stored' = stored
  <2>1. ASSUME NEW live \in BOOLEAN, NEW q \in sent \union late,
               HandleExchange(q, live) \/ HandleAck(q, live) \/ HandlePull(q, live)
        PROVE  stored' = stored
    BY <2>1 DEF HandleExchange, HandleAck, HandlePull
  <2>2. ASSUME NEW g \in Groups, SaveWebConfig(g) \/ ClaimGroup(g) \/ UnbindGroup(g)
        PROVE  stored' = stored
    BY <2>2 DEF SaveWebConfig, ClaimGroup, UnbindGroup, client
  <2>3. ASSUME NEW c \in Clients, SetBlocked(c)
        PROVE  stored' = stored
    BY <2>3 DEF SetBlocked, client
  <2>. QED BY <2>1, <2>2, <2>3 DEF Portal
<1>3. ASSUME NEW live \in BOOLEAN, NEW q \in sent \union late, HandleExchange(q, live)
      PROVE  ReachInv'
  <2>1. q \in ExchangeRequest /\ q.from \in Clients /\ Named(q) \subseteq Reach(q.from)
    BY <1>3 DEF HandleExchange, IInv, TypeOK, ExchangeRequest, AckRequest, PullRequest,
                ReachInv, RequestsWithinReach, WithinReach
  <2>2. RowsWithinReach'
    <3>1. CASE UNCHANGED <<snapshot, clientSync>>
      BY <1>2, <3>1 DEF ReachInv, RowsWithinReach
    <3>2. CASE snapshot' = RowsAfterExchange(q) /\ clientSync' = SyncAfterExchange(q)
      BY <1>1, <1>2, <2>1, <3>2, ExchangeReach DEF ReachInv, RowsWithinReach
    <3>. QED BY <1>3, <3>1, <3>2 DEF HandleExchange
  <2>3. LoopWithinReach'
    <3>1. UNCHANGED <<managed, manual, pull, change, call>>
      BY <1>3 DEF HandleExchange
    <3>2. \A c \in Clients :
            \/ reply'[c] = reply[c]
            \/ c = q.from /\ reply'[c].scope = {} /\ reply'[c].change = NoChange
            \/ c = q.from /\ reply'[c].scope = Scope(q) /\ reply'[c].change = HandedOut(q)
      <4>1. PICK answer :
                /\ reply' = reply \/ reply' = [reply EXCEPT ![q.from] = answer]
                /\ \/ answer.scope = {} /\ answer.change = NoChange
                   \/ answer.scope = Scope(q) /\ answer.change = HandedOut(q)
        BY <1>3 DEF HandleExchange, Answer
      <4>. QED BY <2>1, <4>1 DEF IInv, TypeOK
    <3>3. Scope(q) \subseteq Reach(q.from)
      BY <1>1, <2>1, ExchangeReach DEF Scope, ReachInv, PortalOK
    <3>4. NoChange \notin Change
      BY ConstantsAssumption DEF NoChange, Change
    <3>5. HandedOut(q) \in Change => HandedOut(q).group \in Scope(q)
      BY <1>1, <2>1, <3>4, HandedOutIsCurrent
    <3>. QED BY <1>2, <3>1, <3>2, <3>3, <3>4, <3>5 DEF ReachInv, LoopWithinReach
  <2>4. RequestsWithinReach'
    BY <1>2, <1>3, DeliveredShrinks DEF HandleExchange, ReachInv, RequestsWithinReach
  <2>. QED BY <2>2, <2>3, <2>4 DEF ReachInv
<1>4. ASSUME NEW live \in BOOLEAN, NEW q \in sent \union late, HandleAck(q, live)
      PROVE  ReachInv'
  <2>1. q \in AckRequest /\ q.from \in Clients /\ q.group \in Groups
        /\ q.group \in Reach(q.from)
    BY <1>4 DEF HandleAck, IInv, TypeOK, ExchangeRequest, AckRequest, PullRequest,
                ReachInv, RequestsWithinReach, WithinReach
  <2>2. RowsWithinReach'
    <3>1. CASE UNCHANGED <<snapshot, clientSync>>
      BY <1>2, <3>1 DEF ReachInv, RowsWithinReach
    <3>2. CASE AcknowledgeClaimed(q)
      <4>1. \A g \in Groups : snapshot'[g].owner = snapshot[g].owner
        BY <2>1, <3>2, OwnerKept DEF AcknowledgeClaimed, IInv, TypeOK
      <4>2. \A g \in Groups, c \in Clients :
                clientSync'[g][c].exists => clientSync[g][c].exists
        <5>. DEFINE acknowledged ==
                        Acknowledged(clientSync[q.group][q.from], q.revision, snapshot[q.group])
        <5>1. acknowledged.exists = clientSync[q.group][q.from].exists
          BY <2>1 DEF Acknowledged, IInv, TypeOK, Cursor
        <5>2. clientSync' = [clientSync EXCEPT ![q.group] =
                                [clientSync[q.group] EXCEPT ![q.from] = acknowledged]]
          BY <3>2 DEF AcknowledgeClaimed
        <5>. HIDE DEF acknowledged
        <5>. QED BY <2>1, <5>1, <5>2 DEF IInv, TypeOK
      <4>. QED BY <1>2, <4>1, <4>2 DEF ReachInv, RowsWithinReach
    <3>3. CASE snapshot' = [snapshot EXCEPT ![q.group] = Completed(snapshot[q.group], q.from)]
               /\ clientSync' = clientSync
      <4>1. \A g \in Groups : snapshot'[g].owner = snapshot[g].owner
                              \/ (g = q.group /\ snapshot'[g].owner = q.from)
        BY <2>1, <3>3 DEF Completed, IInv, TypeOK, Snapshot
      <4>. QED BY <1>2, <2>1, <3>3, <4>1 DEF ReachInv, RowsWithinReach
    <3>. QED BY <1>4, <3>1, <3>2, <3>3 DEF HandleAck, AcknowledgeUnclaimed
  <2>3. LoopWithinReach'
    <3>1. UNCHANGED <<managed, manual, pull, change, call>>
      BY <1>4 DEF HandleAck
    <3>2. \A c \in Clients : reply'[c] = reply[c] \/ reply'[c].kind = "ack"
      BY <1>4 DEF HandleAck, Answer, IInv, TypeOK
    <3>. QED BY <1>2, <3>1, <3>2 DEF ReachInv, LoopWithinReach
  <2>4. RequestsWithinReach'
    BY <1>2, <1>4, DeliveredShrinks DEF HandleAck, ReachInv, RequestsWithinReach
  <2>. QED BY <2>2, <2>3, <2>4 DEF ReachInv
<1>5. ASSUME NEW live \in BOOLEAN, NEW q \in sent \union late, HandlePull(q, live)
      PROVE  ReachInv'
  <2>1. q.from \in Pullers /\ q.from \in Clients /\ q.group \in Groups
    BY <1>5 DEF HandlePull, IInv, TypeOK, ExchangeRequest, AckRequest, PullRequest,
                ReachInv, RequestsWithinReach, WithinReach
  <2>2. RowsWithinReach'
    <3>. DEFINE reopened == Reopened(clientSync[q.group][q.from], snapshot[q.group].revision)
                cursors == [clientSync[q.group] EXCEPT ![q.from] = reopened]
    <3>4. \/ UNCHANGED <<snapshot, clientSync>>
          \/ /\ clientSync' = [clientSync EXCEPT ![q.group] = cursors]
             /\ snapshot' = [snapshot EXCEPT ![q.group] =
                                Summarised(snapshot[q.group], cursors)]
      BY <1>5 DEF HandlePull
    <3>. HIDE DEF reopened
    <3>2. \A g \in Groups, c \in Clients \ {q.from} : clientSync'[g][c] = clientSync[g][c]
      <4>1. clientSync \in [Groups -> [Clients -> Cursor]]
        BY DEF IInv, TypeOK
      <4>2. clientSync' \in {clientSync, [clientSync EXCEPT ![q.group] = cursors]}
        BY <3>4
      <4>. QED BY <2>1, <4>1, <4>2
    <3>. HIDE DEF cursors
    <3>5. Summarised(snapshot[q.group], cursors).owner = snapshot[q.group].owner
      BY <2>1, OwnerKept DEF IInv, TypeOK
    <3>1. \A g \in Groups : snapshot'[g].owner = snapshot[g].owner
      BY <2>1, <3>4, <3>5 DEF IInv, TypeOK
    <3>3. Reach(q.from) = Groups
      BY <2>1 DEF Reach
    <3>. QED BY <1>2, <3>1, <3>2, <3>3 DEF ReachInv, RowsWithinReach
  <2>3. LoopWithinReach'
    BY <1>2, <1>5 DEF HandlePull, ReachInv, LoopWithinReach
  <2>4. RequestsWithinReach'
    BY <1>2, <1>5, DeliveredShrinks DEF HandlePull, ReachInv, RequestsWithinReach
  <2>. QED BY <2>2, <2>3, <2>4 DEF ReachInv
<1>6. CASE \/ \E g \in Groups : SaveWebConfig(g) \/ ClaimGroup(g) \/ UnbindGroup(g)
           \/ \E c \in Clients : SetBlocked(c)
  <2>1. UNCHANGED <<client, wire, clientSync>>
    BY <1>6 DEF SaveWebConfig, ClaimGroup, UnbindGroup, SetBlocked
  <2>2. \A g \in Groups : snapshot'[g].owner = snapshot[g].owner
    <3>1. ASSUME NEW h \in Groups, SaveWebConfig(h) \/ ClaimGroup(h)
          PROVE  \A g \in Groups : snapshot'[g].owner = snapshot[g].owner
      <4>1. snapshot[h] \in Snapshot /\ snapshot \in [Groups -> Snapshot]
        BY DEF IInv, TypeOK
      <4>2. CASE SaveWebConfig(h)
        BY <4>1, <4>2 DEF SaveWebConfig, Snapshot
      <4>3. CASE ClaimGroup(h)
        BY <4>1, <4>3 DEF ClaimGroup, Snapshot
      <4>. QED BY <3>1, <4>2, <4>3
    <3>2. CASE \/ \E g \in Groups : UnbindGroup(g)
               \/ \E c \in Clients : SetBlocked(c)
      BY <3>2 DEF UnbindGroup, SetBlocked
    <3>. QED BY <1>6, <3>1, <3>2
  <2>. QED BY <1>2, <2>1, <2>2
       DEF ReachInv, RowsWithinReach, LoopWithinReach, RequestsWithinReach, client, wire
<1>. QED BY <1>3, <1>4, <1>5, <1>6 DEF Portal

\* A new exchange names what is within its client's reach.
LEMMA LocalWithinReach ==
    ASSUME IInv, ReachInv, NEW c \in Clients
    PROVE  LocalGroups(c) \subseteq Reach(c)
BY ConstantsAssumption DEF LocalGroups, Reach, ReachInv, LoopWithinReach, IInv, TypeOK

LEMMA NewExchangeReach ==
    ASSUME IInv, ReachInv, NEW c \in Clients, NEW health \in Healths,
           NEW configs \in SUBSET LocalGroups(c), NEW auths \in SUBSET LocalGroups(c)
    PROVE  WithinReach(ExchangeOf(c, health, configs, auths))
<1>. DEFINE q == ExchangeOf(c, health, configs, auths)
            readable == health # "config_unreadable"
<1>1. LocalGroups(c) \subseteq Reach(c) /\ managed[c] \subseteq Reach(c)
    BY LocalWithinReach DEF ReachInv, LoopWithinReach
<1>2. /\ q.kind = "exchange" /\ q.from = c
      /\ q.local = IF readable THEN LocalGroups(c) ELSE {}
      /\ q.known = CASE health = "complete" -> managed[c] \union auths
                     [] health \in AuthUnreadable -> LocalGroups(c)
                     [] OTHER -> {}
      /\ q.configs = configs /\ q.auths = auths
    BY DEF ExchangeOf
<1>3. health \in {"complete", "config_unreadable"} \union AuthUnreadable
    BY ConstantsAssumption DEF AuthUnreadable
<1>. HIDE DEF q
<1>4. Named(q) \subseteq Reach(q.from)
    BY <1>1, <1>2, <1>3 DEF Named
<1>. QED BY <1>2, <1>4 DEF WithinReach, q

\* So do the clients, whatever they send, read, forget or give up.
LEMMA WindowsReach ==
    ASSUME IInv, ReachInv, NEW c \in Clients, Windows(c), [Next]_vars
    PROVE  ReachInv'
<1>1. \A d \in Clients, g \in Groups : stored'[d][g] > 0 => g \in Reach(d)
  <2>1. CASE ReceiveAndStore(c)
    <3>1. /\ reply[c].kind = "exchange" /\ reply[c].change \in Change
          /\ stored' = [stored EXCEPT ![c][reply[c].change.group] = reply[c].change.revision]
      <4>1. reply[c].kind = "exchange" /\ reply[c].change # NoChange
        BY <2>1 DEF ReceiveAndStore, ReceiveExchange, HasChange, NoChange
      <4>2. reply[c] \in ExchangeReply
        BY <4>1, AnswerKinds DEF NoReply
      <4>. QED BY <2>1, <4>1, <4>2 DEF ReceiveAndStore, ExchangeReply
    <3>. QED BY <3>1 DEF ReachInv, LoopWithinReach, IInv, TypeOK
  <2>2. CASE ~ReceiveAndStore(c)
    <3>1. stored' = stored
      BY <2>2 DEF Windows, SendExchange, ReceiveBlocked, ReceiveNothing, ReceiveAndFail,
                  SendAck, ReceiveAck, Retry, GiveUp, SendPull, ReceivePull, GiveUpPull,
                  Restart
    <3>. QED BY <3>1 DEF ReachInv, LoopWithinReach
  <2>. QED BY <2>1, <2>2
<1>2. RowsWithinReach'
  <2>1. UNCHANGED server
    BY DEF Windows, SendExchange, ReceiveBlocked, ReceiveNothing,
           ReceiveAndStore, ReceiveAndFail, ReceiveExchange, SendAck,
           ReceiveAck, Retry, GiveUp, SendPull, ReceivePull, GiveUpPull, Restart
  <2>. QED BY <1>1, <2>1 DEF ReachInv, RowsWithinReach, server
<1>3. ASSUME NEW q, WithinReach(q),
             call' = [call EXCEPT ![c] = [request |-> q, tries |-> 1]],
             sent' = sent \union {q},
             UNCHANGED <<reply, pull, change, managed, manual, late>>
      PROVE  LoopWithinReach' /\ RequestsWithinReach'
  <2>1. [request |-> q, tries |-> 1].request = q
    OBVIOUS
  <2>2. \A d \in Clients : call'[d] # NoCall => WithinReach(call'[d].request)
    BY <1>3, <2>1 DEF ReachInv, LoopWithinReach, IInv, TypeOK
  <2>. QED BY <1>1, <1>3, <2>2 DEF ReachInv, LoopWithinReach, RequestsWithinReach
<1>4. ASSUME NEW health \in Healths,
             NEW configs \in SUBSET LocalGroups(c), NEW auths \in SUBSET LocalGroups(c),
             SendExchange(c, health, configs, auths)
      PROVE  ReachInv'
  <2>. DEFINE q == ExchangeOf(c, health, configs, auths)
  <2>1. WithinReach(q)
    BY NewExchangeReach
  <2>2. /\ call' = [call EXCEPT ![c] = [request |-> q, tries |-> 1]]
        /\ sent' = sent \union {q}
        /\ UNCHANGED <<reply, pull, change, managed, manual, late>>
    BY <1>4 DEF SendExchange
  <2>. HIDE DEF q
  <2>. QED BY <1>2, <1>3, <2>1, <2>2 DEF ReachInv
<1>5. CASE SendAck(c)
  <2>. DEFINE q == [kind |-> "ack", from |-> c, group |-> change[c].group,
                    revision |-> change[c].revision]
  <2>1. change[c] \in Change
    BY <1>5 DEF SendAck, IInv, WaitsForCall
  <2>2. WithinReach(q)
    BY <2>1 DEF WithinReach, ReachInv, LoopWithinReach
  <2>3. /\ call' = [call EXCEPT ![c] = [request |-> q, tries |-> 1]]
        /\ sent' = sent \union {q}
        /\ UNCHANGED <<reply, pull, change, managed, manual, late>>
    BY <1>5 DEF SendAck
  <2>. HIDE DEF q
  <2>. QED BY <1>2, <1>3, <2>2, <2>3 DEF ReachInv
<1>6. CASE \E g \in Groups : SendPull(c, g)
  <2>1. PICK g \in Groups : SendPull(c, g)
    BY <1>6
  <2>. DEFINE q == [kind |-> "pull", from |-> c, group |-> g]
  <2>2. WithinReach(q)
    BY <2>1 DEF WithinReach, SendPull
  <2>3. /\ c \in Pullers /\ sent' = sent \union {q} /\ late' = late
        /\ pull' = [pull EXCEPT ![c] = g]
        /\ UNCHANGED <<call, reply, change, managed, manual>>
    BY <2>1 DEF SendPull
  <2>. HIDE DEF q
  <2>4. RequestsWithinReach'
    BY <1>1, <2>2, <2>3 DEF ReachInv, RequestsWithinReach
  <2>5. LoopWithinReach'
    BY <1>1, <2>3 DEF ReachInv, LoopWithinReach, IInv, TypeOK
  <2>. QED BY <1>2, <2>4, <2>5 DEF ReachInv
<1>7. CASE Retry(c)
  <2>1. call[c] # NoCall /\ call[c] \in Call
    BY <1>7 DEF Retry, IInv, TypeOK
  <2>2. \A d \in Clients : call'[d] # NoCall =>
              call[d] # NoCall /\ call'[d].request = call[d].request
    BY <1>7, <2>1 DEF Retry, IInv, TypeOK, Call
  <2>3. sent' = sent \union {call[c].request} /\ late' \subseteq late \union sent
    BY <1>7, AbandonedWasSent DEF Retry
  <2>4. RequestsWithinReach'
    BY <1>1, <2>1, <2>3 DEF ReachInv, RequestsWithinReach, LoopWithinReach
  <2>5. /\ UNCHANGED <<pull, change, managed, manual>>
        /\ \A d \in Clients : reply'[d] = reply[d] \/ reply'[d] = NoReply
    BY <1>7 DEF Retry, IInv, TypeOK
  <2>6. LoopWithinReach'
    BY <1>1, <2>2, <2>5 DEF ReachInv, LoopWithinReach, NoReply
  <2>. QED BY <1>2, <2>4, <2>6 DEF ReachInv
<1>8. CASE \/ ReceiveBlocked(c) \/ ReceiveNothing(c) \/ ReceiveAndStore(c)
           \/ ReceiveAndFail(c) \/ ReceiveAck(c) \/ GiveUp(c) \/ ReceivePull(c)
           \/ GiveUpPull(c) \/ Restart(c)
  <2>1. call' = call \/ call' = [call EXCEPT ![c] = NoCall]
    BY <1>8 DEF ReceiveBlocked, ReceiveNothing, ReceiveAndStore, ReceiveAndFail,
                ReceiveExchange, ReceiveAck, GiveUp, ReceivePull, GiveUpPull, Restart
  <2>2. sent' \subseteq sent /\ late' \subseteq late \union sent
    BY <1>8, AbandonedWasSent
       DEF ReceiveBlocked, ReceiveNothing, ReceiveAndStore, ReceiveAndFail,
           ReceiveExchange, ReceiveAck, GiveUp, ReceivePull, GiveUpPull, Restart, wire
  <2>3. reply' = reply \/ reply' = [reply EXCEPT ![c] = NoReply]
    BY <1>8 DEF ReceiveBlocked, ReceiveNothing, ReceiveAndStore, ReceiveAndFail,
                ReceiveExchange, ReceiveAck, GiveUp, ReceivePull, GiveUpPull, Restart
  <2>4. managed' = managed \/ managed' = [managed EXCEPT ![c] = {}]
        \/ (reply[c].kind = "exchange" /\ managed' = [managed EXCEPT ![c] = reply[c].scope])
    BY <1>8 DEF ReceiveBlocked, ReceiveNothing, ReceiveAndStore, ReceiveAndFail,
                ReceiveExchange, ReceiveAck, GiveUp, ReceivePull, GiveUpPull, Restart
  <2>5. pull' = pull \/ pull' = [pull EXCEPT ![c] = NoGroup]
    BY <1>8 DEF ReceiveBlocked, ReceiveNothing, ReceiveAndStore, ReceiveAndFail,
                ReceiveExchange, ReceiveAck, GiveUp, ReceivePull, GiveUpPull, Restart
  <2>6. \A d \in Clients : manual'[d] \subseteq manual[d] \/ d \in Pullers
    <3>1. CASE ReceivePull(c)
      <4>1. c \in Pullers
        BY <3>1 DEF ReceivePull, IInv, WaitsForCall, ReachInv, LoopWithinReach
      <4>. QED BY <3>1, <4>1 DEF ReceivePull, IInv, TypeOK
    <3>2. CASE ReceiveAck(c)
      <4>1. manual' = manual \/ manual' = [manual EXCEPT ![c] = manual[c] \ {change[c].group}]
        BY <3>2 DEF ReceiveAck
      <4>2. manual \in [Clients -> SUBSET Groups]
        BY DEF IInv, TypeOK
      <4>3. manual'[c] \subseteq manual[c] /\ \A d \in Clients \ {c} : manual'[d] = manual[d]
        BY <4>1, <4>2
      <4>. QED BY <4>3
    <3>3. CASE \/ ReceiveBlocked(c) \/ ReceiveNothing(c) \/ ReceiveAndStore(c)
               \/ ReceiveAndFail(c) \/ GiveUp(c) \/ GiveUpPull(c) \/ Restart(c)
      <4>1. manual' = manual \/ manual' = [manual EXCEPT ![c] = {}]
        BY <3>3 DEF ReceiveBlocked, ReceiveNothing, ReceiveAndStore, ReceiveAndFail,
                    ReceiveExchange, GiveUp, GiveUpPull, Restart
      <4>. QED BY <4>1 DEF IInv, TypeOK
    <3>. QED BY <1>8, <3>1, <3>2, <3>3
  <2>7. \A d \in Clients : change'[d] \in Change => change'[d].group \in Reach(d)
    <3>1. CASE ReceiveAndStore(c)
      <4>1. /\ change' = [change EXCEPT ![c] = reply[c].change]
            /\ reply[c].kind = "exchange"
        BY <3>1 DEF ReceiveAndStore, ReceiveExchange
      <4>. QED BY <4>1 DEF ReachInv, LoopWithinReach, IInv, TypeOK
    <3>2. CASE \/ ReceiveBlocked(c) \/ ReceiveNothing(c) \/ ReceiveAck(c)
               \/ ReceiveAndFail(c) \/ GiveUp(c) \/ ReceivePull(c)
               \/ GiveUpPull(c) \/ Restart(c)
      <4>1. change' = change \/ change' = [change EXCEPT ![c] = NoChange]
        BY <3>2 DEF ReceiveBlocked, ReceiveNothing, ReceiveAck, ReceiveAndFail,
                    ReceiveExchange, GiveUp, ReceivePull, GiveUpPull, Restart
      <4>2. NoChange \notin Change
        BY ConstantsAssumption DEF NoChange, Change
      <4>. QED BY <1>1, <4>1, <4>2 DEF ReachInv, LoopWithinReach, IInv, TypeOK
    <3>. QED BY <1>8, <3>1, <3>2
  <2>8. RequestsWithinReach'
    BY <1>1, <2>2 DEF ReachInv, RequestsWithinReach
  <2>9. \A d \in Clients : /\ call'[d] # NoCall => WithinReach(call'[d].request)
                           /\ reply'[d].kind = "exchange" => reply'[d] = reply[d]
    BY <2>1, <2>3 DEF ReachInv, LoopWithinReach, IInv, TypeOK, NoReply
  <2>10. \A d \in Clients : managed'[d] \subseteq Reach(d)
    BY <1>1, <2>4 DEF ReachInv, LoopWithinReach, IInv, TypeOK
  <2>11. \A d \in Clients : manual'[d] # {} \/ pull'[d] # NoGroup => d \in Pullers
    BY <2>5, <2>6 DEF ReachInv, LoopWithinReach, IInv, TypeOK
  <2>. QED BY <1>1, <1>2, <2>7, <2>8, <2>9, <2>10, <2>11 DEF ReachInv, LoopWithinReach
<1>. QED BY <1>4, <1>5, <1>6, <1>7, <1>8 DEF Windows

LEMMA ReachStep ==
    ASSUME IInv, ReachInv, [Next]_vars
    PROVE  ReachInv'
<1>1. CASE UNCHANGED vars
  <2>1. UNCHANGED <<server, client, wire>>
    BY <1>1 DEF vars
  <2>. QED BY <2>1
       DEF ReachInv, RowsWithinReach, LoopWithinReach, RequestsWithinReach,
           server, client, wire
<1>. QED BY <1>1, PortalReach, WindowsReach DEF Next

LEMMA ReachInitially == Init => ReachInv
<1>. SUFFICES ASSUME Init PROVE ReachInv
    OBVIOUS
<1>1. \A g \in Groups : snapshot[g].owner = NoClient
  <2>1. \A g \in Groups : snapshot[g] \in
            {NoSnapshot,
             [NoSnapshot EXCEPT !.status = "synced"],
             [status |-> "synced", revision |-> 1, applied |-> 1, owner |-> NoClient]}
    BY DEF Init
  <2>. QED BY <2>1 DEF NoSnapshot
<1>2. \A g \in Groups, c \in Clients : ~clientSync[g][c].exists
    BY DEF Init, NoCursor, CursorAt
<1>3. RowsWithinReach
    BY <1>1, <1>2, ConstantsAssumption DEF RowsWithinReach
<1>4. NoChange \notin Change
    BY ConstantsAssumption DEF NoChange, Change
<1>5. LoopWithinReach
    BY <1>4 DEF Init, LoopWithinReach, NoReply
<1>. QED BY <1>3, <1>5 DEF Init, ReachInv, RequestsWithinReach

THEOREM ReachInvariance == Spec => []ReachInv
BY ReachInitially, ReachStep, Invariance, PTL DEF Spec

\* Whatever other clients report, whoever claims or leaves a group and whatever
\* is delivered late: bound_group_ids, the cursors, the owners of the rows and
\* the files of a client whose owner pulls nothing are about the groups on its
\* own list.
THEOREM OnlyListedReach == Spec => []OnlyListedGroups
<1>1. IInv /\ ReachInv => OnlyListedGroups
  <2>. SUFFICES ASSUME IInv, ReachInv, NEW c \in Clients \ Pullers, NEW g \in Groups,
                       \/ stored[c][g] > 0 \/ clientSync[g][c].exists
                       \/ snapshot[g].owner = c \/ g \in managed[c]
                PROVE  g \in Joined[c]
    BY DEF OnlyListedGroups
  <2>1. g \in Reach(c)
    BY DEF ReachInv, RowsWithinReach, LoopWithinReach
  <2>. QED BY <2>1 DEF Reach
<1>. QED BY <1>1, Invariance, ReachInvariance, PTL

-----------------------------------------------------------------------------
(* The register.                                                            *)

LEMMA RegisterInitially ==
    ASSUME Init, NEW g \in Groups
    PROVE  Register(g)!RegisterInit
<1>1. snapshot[g].revision \in Nat
    BY InitInvariant DEF IInv, TypeOK, Snapshot
<1>2. \A c \in Clients : ~clientSync[g][c].exists /\ clientSync[g][c].applied = 0
    BY DEF Init, NoCursor, CursorAt
<1>. QED BY <1>1, <1>2 DEF Init, Register!RegisterInit

RegisterStep(g) == Register(g)!RegisterNext \/ UNCHANGED Register(g)!registerVars

\* The same group seen by the register before and after a step.
SameCursors(g) ==
    \A c \in Clients : /\ clientSync'[g][c].exists = clientSync[g][c].exists
                       /\ clientSync'[g][c].applied = clientSync[g][c].applied
SameCopies(g) == \A c \in Clients : stored'[c][g] = stored[c][g]
SameRevision(g) == snapshot'[g].revision = snapshot[g].revision

LEMMA RegisterStutters ==
    ASSUME NEW g \in Groups, SameRevision(g), SameCopies(g), SameCursors(g)
    PROVE  RegisterStep(g)
<1>1. [c \in Clients |-> stored[c][g]]' = [c \in Clients |-> stored[c][g]]
    BY DEF SameCopies
<1>2. {c \in Clients : clientSync[g][c].exists}' = {c \in Clients : clientSync[g][c].exists}
    BY DEF SameCursors
<1>3. [c \in Clients |-> clientSync[g][c].applied]' = [c \in Clients |-> clientSync[g][c].applied]
    BY DEF SameCursors
<1>. QED BY <1>1, <1>2, <1>3 DEF RegisterStep, SameRevision, Register!registerVars

LEMMA RegisterSaves ==
    ASSUME NEW g \in Groups, snapshot'[g].revision = snapshot[g].revision + 1,
           SameCopies(g), SameCursors(g)
    PROVE  RegisterStep(g)
<1>1. [c \in Clients |-> stored[c][g]]' = [c \in Clients |-> stored[c][g]]
    BY DEF SameCopies
<1>2. {c \in Clients : clientSync[g][c].exists}' = {c \in Clients : clientSync[g][c].exists}
    BY DEF SameCursors
<1>3. [c \in Clients |-> clientSync[g][c].applied]' = [c \in Clients |-> clientSync[g][c].applied]
    BY DEF SameCursors
<1>4. Register(g)!NewRevision
    BY <1>1, <1>2, <1>3 DEF Register!NewRevision
<1>. QED BY <1>4 DEF RegisterStep, Register!RegisterNext

LEMMA RegisterEnrols ==
    ASSUME NEW g \in Groups, IInv, IInv', CursorsKept, SameCopies(g),
           SameRevision(g) \/ (snapshot[g].revision = 0 /\ snapshot'[g].revision = 1)
    PROVE  RegisterStep(g)
<1>. DEFINE new == {c \in Clients : ~clientSync[g][c].exists /\ clientSync'[g][c].exists}
            enrolled == {c \in Clients : clientSync[g][c].exists}
            confirmed == [c \in Clients |-> clientSync[g][c].applied]
<1>1. CASE new = {}
  <2>1. SameCursors(g)
    BY <1>1 DEF CursorsKept, SameCursors, IInv, TypeOK, Cursor
  <2>. QED BY <2>1, RegisterStutters, RegisterSaves
<1>2. CASE new # {}
  <2>1. new \intersect enrolled = {} /\ enrolled' = enrolled \union new
    BY DEF CursorsKept
  <2>2. /\ \A c \in new : confirmed'[c] \in 0 .. snapshot'[g].revision
        /\ confirmed' \in [Clients -> Nat]
    BY DEF IInv, TypeOK, Cursor, Snapshot, RowsConsistent
  <2>3. \A c \in Clients \ new : confirmed'[c] = confirmed[c]
    BY DEF CursorsKept
  <2>4. [c \in Clients |-> stored[c][g]]' = [c \in Clients |-> stored[c][g]]
    BY DEF SameCopies
  <2>5. PICK clients \in SUBSET Clients : clients = new
    OBVIOUS
  <2>6. Register(g)!Enrol(clients)
    BY <1>2, <2>1, <2>2, <2>3, <2>4, <2>5 DEF Register!Enrol, SameRevision
  <2>7. Register(g)!RegisterNext
    BY <2>6 DEF Register!RegisterNext
  <2>. QED BY <2>7 DEF RegisterStep
<1>. QED BY <1>1, <1>2

LEMMA RegisterConfirms ==
    ASSUME NEW g \in Groups, NEW c \in Clients, NEW r \in Nat, IInv, IInv',
           SameCopies(g), SameRevision(g), CursorsKeptBut(g, c),
           CursorConfirmed(g, c, r), r <= stored[c][g]
    PROVE  RegisterStep(g)
<1>. DEFINE enrolled == {d \in Clients : clientSync[g][d].exists}
            confirmed == [d \in Clients |-> clientSync[g][d].applied]
            held == [d \in Clients |-> stored[d][g]]
<1>1. \A d \in Clients \ {c} : clientSync'[g][d] = clientSync[g][d]
    BY DEF CursorsKeptBut
<1>2. CASE clientSync'[g][c].applied = clientSync[g][c].applied
  <2>1. clientSync[g][c].exists \in BOOLEAN /\ clientSync'[g][c].exists \in BOOLEAN
    BY DEF IInv, TypeOK, Cursor
  <2>2. clientSync'[g][c].exists = clientSync[g][c].exists
    BY <1>2, <2>1 DEF CursorConfirmed
  <2>3. SameCursors(g)
    BY <1>1, <1>2, <2>2 DEF SameCursors
  <2>. QED BY <2>3, RegisterStutters
<1>3. CASE clientSync'[g][c].applied # clientSync[g][c].applied
  <2>1. /\ c \in enrolled
        /\ r > clientSync[g][c].applied
        /\ clientSync'[g][c].applied = r
    BY <1>3 DEF CursorConfirmed
  <2>2. clientSync[g][c].applied \in Nat /\ stored[c][g] \in Nat
    BY DEF IInv, TypeOK, Cursor
  <2>3. r \in confirmed[c] + 1 .. held[c] /\ confirmed[c] < held[c]
    BY <2>1, <2>2
  <2>4. confirmed' = [confirmed EXCEPT ![c] = r]
    BY <1>1, <2>1
  <2>5. enrolled' = enrolled
    BY <1>1 DEF CursorConfirmed
  <2>6. held' = held
    BY DEF SameCopies
  <2>7. Register(g)!Confirm(c)
    BY <2>1, <2>3, <2>4, <2>5, <2>6 DEF Register!Confirm, SameRevision
  <2>. QED BY <2>7 DEF RegisterStep, Register!RegisterNext
<1>. QED BY <1>2, <1>3

LEMMA RegisterReopens ==
    ASSUME NEW g \in Groups, NEW c \in Clients, IInv, IInv', SameCopies(g),
           SameRevision(g), CursorsKeptBut(g, c), CursorReopened(g, c),
           snapshot[g].revision > 0
    PROVE  RegisterStep(g)
<1>. DEFINE enrolled == {d \in Clients : clientSync[g][d].exists}
            confirmed == [d \in Clients |-> clientSync[g][d].applied]
<1>1. \A d \in Clients \ {c} : clientSync'[g][d] = clientSync[g][d]
    BY DEF CursorsKeptBut
<1>2. CASE clientSync[g][c].exists /\ clientSync'[g][c].applied = clientSync[g][c].applied
  <2>1. clientSync[g][c].exists \in BOOLEAN /\ clientSync'[g][c].exists \in BOOLEAN
    BY DEF IInv, TypeOK, Cursor
  <2>2. clientSync'[g][c].exists = clientSync[g][c].exists
    BY <1>2, <2>1 DEF CursorReopened
  <2>3. SameCursors(g)
    BY <1>1, <1>2, <2>2 DEF SameCursors
  <2>. QED BY <2>3, RegisterStutters
<1>3. CASE clientSync'[g][c].applied = snapshot[g].revision - 1
  <2>1. confirmed' = [confirmed EXCEPT ![c] = snapshot[g].revision - 1]
    BY <1>1, <1>3
  <2>2. enrolled' = enrolled \union {c}
    BY <1>1 DEF CursorReopened
  <2>3. [d \in Clients |-> stored[d][g]]' = [d \in Clients |-> stored[d][g]]
    BY DEF SameCopies
  <2>4. Register(g)!Reopen(c)
    BY <2>1, <2>2, <2>3 DEF Register!Reopen, SameRevision
  <2>. QED BY <2>4 DEF RegisterStep, Register!RegisterNext
<1>. QED BY <1>2, <1>3 DEF CursorReopened

LEMMA RegisterReceives ==
    ASSUME IInv, NEW c \in Clients, ReceiveAndStore(c), NEW g \in Groups
    PROVE  RegisterStep(g)
<1>1. SameRevision(g) /\ SameCursors(g)
    BY ReceiveAndStoreInvariant DEF SameRevision, SameCursors, server
<1>2. PICK h \in Groups, r \in Nat :
            /\ stored' = [stored EXCEPT ![c][h] = r]
            /\ stored[c][h] <= r /\ r <= snapshot[h].revision
    BY ReceiveAndStoreInvariant
<1>3. CASE h # g \/ stored[c][h] = r
  <2>1. SameCopies(g)
    BY <1>2, <1>3 DEF SameCopies, IInv, TypeOK
  <2>. QED BY <1>1, <2>1, RegisterStutters
<1>4. CASE h = g /\ stored[c][h] # r
  <2>. DEFINE held == [d \in Clients |-> stored[d][g]]
  <2>1. stored[c][g] \in Nat /\ snapshot[g].revision \in Nat
    BY DEF IInv, TypeOK, Snapshot
  <2>2. r \in held[c] + 1 .. snapshot[g].revision /\ held[c] < snapshot[g].revision
    BY <1>2, <1>4, <2>1
  <2>3. held' = [held EXCEPT ![c] = r]
    BY <1>2, <1>4 DEF IInv, TypeOK
  <2>4. UNCHANGED server
    BY ReceiveAndStoreInvariant
  <2>5. Register(g)!Receive(c)
    BY <2>2, <2>3, <2>4 DEF Register!Receive, server
  <2>. QED BY <2>5 DEF RegisterStep, Register!RegisterNext
<1>. QED BY <1>3, <1>4

LEMMA PortalRegisterStep ==
    ASSUME IInv, Portal, NEW g \in Groups
    PROVE  RegisterStep(g)
<1>1. CASE \E live \in BOOLEAN : \E q \in sent \union late : HandleExchange(q, live)
  <2>1. PICK live \in BOOLEAN, q \in sent \union late : HandleExchange(q, live)
    BY <1>1
  <2>2. IInv' /\ CursorsKept /\ FirstRevisionAtMost /\ SameCopies(g)
    BY <2>1, HandleExchangeInvariant DEF HandleExchange, SameCopies
  <2>. QED BY <2>2, RegisterEnrols DEF FirstRevisionAtMost, SameRevision
<1>2. CASE \E live \in BOOLEAN : \E q \in sent \union late : HandleAck(q, live)
  <2>1. PICK live \in BOOLEAN, q \in sent \union late : HandleAck(q, live)
    BY <1>2
  <2>2. /\ IInv'
        /\ q \in AckRequest /\ q.revision <= stored[q.from][q.group]
        /\ CursorsKeptBut(q.group, q.from)
        /\ \/ clientSync' = clientSync
           \/ CursorConfirmed(q.group, q.from, q.revision)
        /\ SameCopies(g) /\ SameRevision(g)
    BY <2>1, HandleAckInvariant DEF HandleAck, SameCopies, SameRevision
  <2>3. q.group \in Groups /\ q.from \in Clients /\ q.revision \in Nat
    BY <2>2 DEF AckRequest
  <2>4. CASE clientSync' = clientSync \/ q.group # g
    <3>1. SameCursors(g)
      BY <2>2, <2>4 DEF SameCursors, CursorsKeptBut
    <3>. QED BY <2>2, <3>1, RegisterStutters
  <2>5. CASE q.group = g /\ CursorConfirmed(q.group, q.from, q.revision)
    BY <2>2, <2>3, <2>5, RegisterConfirms
  <2>. QED BY <2>2, <2>4, <2>5
<1>3. CASE \E live \in BOOLEAN : \E q \in sent \union late : HandlePull(q, live)
  <2>1. PICK live \in BOOLEAN, q \in sent \union late : HandlePull(q, live)
    BY <1>3
  <2>2. /\ IInv'
        /\ q \in PullRequest
        /\ CursorsKeptBut(q.group, q.from)
        /\ clientSync' = clientSync \/ CursorReopened(q.group, q.from)
        /\ SameCopies(g) /\ SameRevision(g)
    BY <2>1, HandlePullInvariant DEF HandlePull, SameCopies, SameRevision
  <2>3. q.group \in Groups /\ q.from \in Clients
    BY <2>2 DEF PullRequest
  <2>4. CASE clientSync' = clientSync \/ q.group # g
    <3>1. SameCursors(g)
      BY <2>2, <2>4 DEF SameCursors, CursorsKeptBut
    <3>. QED BY <2>2, <3>1, RegisterStutters
  <2>5. CASE q.group = g /\ clientSync' # clientSync
    <3>1. Pullable(g)
      BY <2>1, <2>5 DEF HandlePull
    <3>. QED BY <2>2, <2>3, <2>5, <3>1, RegisterReopens DEF Pullable
  <2>. QED BY <2>4, <2>5
<1>4. CASE \E h \in Groups : SaveWebConfig(h) \/ ClaimGroup(h) \/ UnbindGroup(h)
  <2>1. PICK h \in Groups : SaveWebConfig(h) \/ ClaimGroup(h) \/ UnbindGroup(h)
    BY <1>4
  <2>2. /\ UNCHANGED <<clientSync, client, wire>>
        /\ \/ SameRevision(g)
           \/ snapshot'[g].revision = snapshot[g].revision + 1
    BY <2>1, BrowserInvariant DEF SameRevision
  <2>3. SameCopies(g) /\ SameCursors(g)
    BY <2>2 DEF SameCopies, SameCursors, client
  <2>. QED BY <2>2, <2>3, RegisterStutters, RegisterSaves
<1>5. CASE \E c \in Clients : SetBlocked(c)
  <2>1. SameRevision(g) /\ SameCopies(g) /\ SameCursors(g)
    BY <1>5 DEF SetBlocked, SameRevision, SameCopies, SameCursors, client
  <2>. QED BY <2>1, RegisterStutters
<1>. QED BY <1>1, <1>2, <1>3, <1>4, <1>5 DEF Portal

LEMMA RegisterSteps ==
    ASSUME IInv, [Next]_vars, NEW g \in Groups
    PROVE  RegisterStep(g)
<1>1. CASE Portal
    BY <1>1, PortalRegisterStep
<1>2. ASSUME NEW c \in Clients, Windows(c)
      PROVE  RegisterStep(g)
  <2>1. CASE ReceiveAndStore(c)
    BY <2>1, RegisterReceives
  <2>2. CASE ~ReceiveAndStore(c)
    <3>1. UNCHANGED server /\ stored' = stored
      BY <1>2, <2>2
         DEF Windows, SendExchange, ReceiveBlocked, ReceiveNothing, ReceiveAndFail,
             ReceiveExchange, SendAck, ReceiveAck, Retry, GiveUp, SendPull,
             ReceivePull, GiveUpPull, Restart
    <3>2. SameRevision(g) /\ SameCopies(g) /\ SameCursors(g)
      BY <3>1 DEF SameRevision, SameCopies, SameCursors, server
    <3>. QED BY <3>2, RegisterStutters
  <2>. QED BY <2>1, <2>2
<1>3. CASE UNCHANGED vars
  <2>1. SameRevision(g) /\ SameCopies(g) /\ SameCursors(g)
    BY <1>3 DEF vars, server, client, SameRevision, SameCopies, SameCursors
  <2>. QED BY <2>1, RegisterStutters
<1>. QED BY <1>1, <1>2, <1>3 DEF Next

\* Each group's channel implements the replicated register, for any number of
\* groups and clients: whatever exchange, ACK, pull, save, retry, late delivery
\* or restart happens, it is one of the register's steps or none of them.
THEOREM RegisterImplemented == Spec => ImplementsRegister
<1>1. Init => \A g \in Groups : Register(g)!RegisterInit
    BY RegisterInitially
<1>2. ASSUME IInv, [Next]_vars
      PROVE  [\A g \in Groups :
                Register(g)!RegisterNext \/ UNCHANGED Register(g)!registerVars]_vars
    BY <1>2, RegisterSteps DEF RegisterStep
<1>. QED BY <1>1, <1>2, Invariance, PTL DEF Spec, ImplementsRegister

=============================================================================
