--------------------------- MODULE LicenseCardsProofs ---------------------------
(***************************************************************************)
(* Proofs about LicenseCards, for every set of groups, cards and commands, *)
(* one process or two, with and without failing reads and writes.          *)
(*                                                                         *)
(* auth.json is only ever replaced by what an operation made of a copy.    *)
(* So it is enough that the empty default is sound, that every operation   *)
(* makes a sound file of a sound one, and that a process cannot invent a   *)
(* card that another one already used.  Sound carries the last point: the  *)
(* cards in a file, or in a copy however old, have all been generated, and *)
(* a new card is none of them.                                             *)
(*                                                                         *)
(* What an operation leaves of the copy it had (Follows) says something of *)
(* the file only as far as that copy is still the file: for the life of a  *)
(* card one process is enough (OneProcess), since the empty default knows  *)
(* no cards; a permanent authorization needs reads that succeed (Alone);   *)
(* what relates two parts of one version needs neither.                    *)
(***************************************************************************)
EXTENDS LicenseCards, TLAPS

\* The cards a file speaks of have been generated.
Sound(d, m) ==
    /\ d \in Data
    /\ Consistent(d)
    /\ d.unused \cup Used(d) \subseteq m

CopiesSound == \A p \in Processes : copy[p] # Idle => Sound(copy[p], minted)

CardsInv == TypeOK /\ Sound(file, minted) /\ CopiesSound

-----------------------------------------------------------------------------
(* The operations make sound files of sound ones.                          *)

LEMMA ExpiresFacts ==
    /\ Forever \in Expires /\ 0 \in Expires /\ MaxExpire \in Expires
    /\ Expires \subseteq Int
BY CardsAssumption DEF Expires, Forever

LEMMA UnlistedTyped ==
    Unlisted \in [listed : BOOLEAN, expire : Expires,
                  key : Cards \cup {NoCard}, lifelong : BOOLEAN]
BY ExpiresFacts DEF Unlisted

LEMMA NotUsedTyped ==
    NotUsed \in [group : Groups \cup {NoGroup}, expire : Expires]
BY ExpiresFacts DEF NotUsed

LEMMA AuthorizationTyped ==
    ASSUME NEW e \in Expires, NEW c \in Cards \cup {NoCard}, NEW l \in BOOLEAN
    PROVE  Authorization(e, c, l) \in
                [listed : BOOLEAN, expire : Expires,
                 key : Cards \cup {NoCard}, lifelong : BOOLEAN]
BY DEF Authorization

\* What an unreadable file is taken for.
LEMMA EmptySound ==
    ASSUME NEW m
    PROVE  Sound(Empty, m)
<1>1. Empty \in Data
    BY UnlistedTyped, NotUsedTyped DEF Empty, Data
<1>2. Used(Empty) = {} /\ Empty.unused = {}
    BY DEF Used, Empty, NotUsed
<1>3. \A g \in Groups : Empty.groups[g].key = NoCard
    BY DEF Empty, Unlisted
<1>. QED BY <1>1, <1>2, <1>3 DEF Sound, Consistent

LEMMA MoreMinted ==
    ASSUME NEW d, NEW m, NEW n, Sound(d, m), m \subseteq n
    PROVE  Sound(d, n)
BY DEF Sound

\* A new unused card.
LEMMA AddedSound ==
    ASSUME NEW d, NEW m, NEW c \in Cards, Sound(d, m), c \notin m
    PROVE  Sound([d EXCEPT !.unused = d.unused \cup {c}], m \cup {c})
<1> DEFINE e == [d EXCEPT !.unused = d.unused \cup {c}]
<1>1. e \in Data /\ e.used = d.used /\ e.groups = d.groups
      /\ e.unused = d.unused \cup {c}
    BY DEF Sound, Data
<1>2. Used(e) = Used(d) /\ \A g \in Groups : HasCard(d, g) => HasCard(e, g)
    BY <1>1 DEF Used, HasCard
<1>3. c \notin Used(d)
    BY DEF Sound
<1>. QED BY <1>1, <1>2, <1>3 DEF Sound, Consistent

\* Unused cards that go away.
LEMMA RemovedSound ==
    ASSUME NEW d, NEW m, NEW u, Sound(d, m), u \subseteq d.unused
    PROVE  Sound([d EXCEPT !.unused = u], m)
<1> DEFINE e == [d EXCEPT !.unused = u]
<1>1. e \in Data /\ e.used = d.used /\ e.groups = d.groups /\ e.unused = u
    BY DEF Sound, Data
<1>2. Used(e) = Used(d) /\ \A g \in Groups : HasCard(d, g) => HasCard(e, g)
    BY <1>1 DEF Used, HasCard
<1>. QED BY <1>1, <1>2 DEF Sound, Consistent

\* A group's record names its own card only.
LEMMA KeyIsOwn ==
    ASSUME NEW d, NEW m, Sound(d, m), NEW g \in Groups, NEW h \in Groups,
           d.groups[g].key # NoCard, d.groups[g].key = d.groups[h].key
    PROVE  g = h
BY CardsAssumption DEF Sound, Consistent, HasCard

LEMMA KeyIsCard ==
    ASSUME NEW d, NEW m, Sound(d, m), NEW g \in Groups
    PROVE  /\ d.groups[g].key \in Cards \cup {NoCard}
           /\ d.groups[g].expire \in Expires
           /\ d.groups[g].listed \in BOOLEAN
           /\ d.groups[g].lifelong \in BOOLEAN
           /\ HasCard(d, g) <=> d.groups[g].key # NoCard
BY DEF Sound, Data, Consistent, HasCard

\* A card nobody uses becomes the current one of a group.
LEMMA WithCardSound ==
    ASSUME NEW d, NEW m, Sound(d, m), NEW g \in Groups, NEW c \in Cards,
           NEW e \in Expires, c \in m, c \notin Used(d)
    PROVE  Sound(WithCard(d, g, c, e), m)
<1> DEFINE n == WithCard(d, g, c, e)
<1>1. /\ n.unused = d.unused \ {c}
      /\ n.used = [d.used EXCEPT ![c] = [group |-> g, expire |-> e]]
      /\ n.groups = [d.groups EXCEPT ![g] = Authorization(e, c, e = Forever)]
    BY DEF WithCard
<1>2. n \in Data
  <2>1. n.groups \in [Groups -> [listed : BOOLEAN, expire : Expires,
                                 key : Cards \cup {NoCard}, lifelong : BOOLEAN]]
    <3>1. Authorization(e, c, e = Forever) \in
                [listed : BOOLEAN, expire : Expires,
                 key : Cards \cup {NoCard}, lifelong : BOOLEAN]
        BY AuthorizationTyped
    <3>2. d.groups \in [Groups -> [listed : BOOLEAN, expire : Expires,
                                   key : Cards \cup {NoCard}, lifelong : BOOLEAN]]
        BY DEF Sound, Data
    <3>. HIDE DEF n
    <3>. QED BY <1>1, <3>1, <3>2
  <2>2. n.used \in [Cards -> [group : Groups \cup {NoGroup}, expire : Expires]]
    BY <1>1 DEF Sound, Data
  <2>3. n.unused \in SUBSET Cards
    BY <1>1 DEF Sound, Data
  <2>. QED BY <2>1, <2>2, <2>3 DEF Data, WithCard
<1>3. Used(n) = Used(d) \cup {c}
    BY <1>1, CardsAssumption DEF Used, Sound, Data
<1>4. \A h \in Groups : n.groups[h].key # NoCard => HasCard(n, h)
  <2> SUFFICES ASSUME NEW h \in Groups, n.groups[h].key # NoCard
               PROVE  HasCard(n, h)
    OBVIOUS
  <2>1. CASE h = g
    <3>1. n.groups[h].key = c
        BY <1>1, <2>1 DEF Sound, Data, Authorization
    <3>2. n.used[c].group = g
        BY <1>1 DEF Sound, Data
    <3>. QED BY <2>1, <3>1, <3>2, CardsAssumption DEF HasCard
  <2>2. CASE h # g
    <3>1. n.groups[h] = d.groups[h]
        BY <1>1, <2>2 DEF Sound, Data
    <3>2. HasCard(d, h)
        BY <3>1, KeyIsCard
    <3>3. d.groups[h].key \in Used(d)
        BY <3>2, KeyIsCard, CardsAssumption DEF HasCard, Used
    <3>4. n.used[d.groups[h].key] = d.used[d.groups[h].key]
        BY <1>1, <3>3 DEF Sound, Data, Used
    <3>. QED BY <3>1, <3>2, <3>4 DEF HasCard
  <2>. QED BY <2>1, <2>2
<1>. QED BY <1>1, <1>2, <1>3, <1>4 DEF Sound, Consistent

\* The group's former card leaves the used list, its record is about to go.
LEMMA ReplacedSound ==
    ASSUME NEW d, NEW m, Sound(d, m), NEW g \in Groups
    PROVE  /\ Replaced(d, g).unused = d.unused
           /\ Used(Replaced(d, g)) \subseteq Used(d)
           /\ Replaced(d, g).groups = d.groups
           /\ Replaced(d, g) \in Data
           /\ \A h \in Groups \ {g} :
                d.groups[h].key # NoCard => HasCard(Replaced(d, g), h)
<1>1. CASE ~HasCard(d, g)
    BY <1>1 DEF Replaced, Sound, Consistent
<1>2. CASE HasCard(d, g)
  <2> DEFINE k == d.groups[g].key
             n == [d EXCEPT !.used[k] = NotUsed]
  <2>1. k \in Cards
    BY <1>2, KeyIsCard
  <2>2. n = Replaced(d, g)
    BY <1>2 DEF Replaced
  <2>3. n.unused = d.unused /\ n.groups = d.groups
        /\ n.used = [d.used EXCEPT ![k] = NotUsed] /\ n \in Data
    BY <2>1, NotUsedTyped DEF Sound, Data
  <2>4. Used(n) \subseteq Used(d)
    BY <2>1, <2>3 DEF Used, NotUsed, Sound, Data
  <2>5. \A h \in Groups \ {g} : d.groups[h].key # NoCard => HasCard(n, h)
    <3> SUFFICES ASSUME NEW h \in Groups \ {g}, d.groups[h].key # NoCard
                 PROVE  HasCard(n, h)
        OBVIOUS
    <3>1. d.groups[h].key # k /\ HasCard(d, h) /\ d.groups[h].key \in Cards
        BY <2>1, KeyIsOwn, KeyIsCard, CardsAssumption
    <3>2. n.used[d.groups[h].key] = d.used[d.groups[h].key]
        BY <2>1, <2>3, <3>1 DEF Sound, Data
    <3>3. n.groups = d.groups
        BY <2>3
    <3>. HIDE DEF n
    <3>. QED BY <3>1, <3>2, <3>3 DEF HasCard
  <2>. QED BY <2>2, <2>3, <2>4, <2>5
<1>. QED BY <1>1, <1>2

LEMMA IssuedSound ==
    ASSUME NEW d, NEW m, Sound(d, m), NEW g \in Groups, NEW c \in Cards,
           NEW e \in Expires, c \notin m
    PROVE  Sound(WithCard(Replaced(d, g), g, c, e), m \cup {c})
<1> DEFINE r == Replaced(d, g)
           n == WithCard(r, g, c, e)
<1>1. /\ r.unused = d.unused
      /\ Used(r) \subseteq Used(d)
      /\ r.groups = d.groups
      /\ r \in Data
      /\ \A h \in Groups \ {g} : d.groups[h].key # NoCard => HasCard(r, h)
    BY ReplacedSound
<1>2. c \notin Used(r) /\ c \notin r.unused
    BY <1>1 DEF Sound
<1>. HIDE DEF r
<1>3. /\ n.unused = r.unused \ {c}
      /\ n.used = [r.used EXCEPT ![c] = [group |-> g, expire |-> e]]
      /\ n.groups = [r.groups EXCEPT ![g] = Authorization(e, c, e = Forever)]
    BY DEF WithCard
<1>4. n \in Data
  <2>1. Authorization(e, c, e = Forever) \in
            [listed : BOOLEAN, expire : Expires,
             key : Cards \cup {NoCard}, lifelong : BOOLEAN]
    BY AuthorizationTyped
  <2>2. n.groups \in [Groups -> [listed : BOOLEAN, expire : Expires,
                                 key : Cards \cup {NoCard}, lifelong : BOOLEAN]]
    <3>. HIDE DEF n
    <3>. QED BY <1>1, <1>3, <2>1 DEF Data
  <2>3. n.used \in [Cards -> [group : Groups \cup {NoGroup}, expire : Expires]]
    BY <1>1, <1>3 DEF Data
  <2>4. n.unused \in SUBSET Cards
    BY <1>1, <1>3 DEF Data
  <2>. QED BY <2>2, <2>3, <2>4 DEF Data, WithCard
<1>5. Used(n) = Used(r) \cup {c}
    BY <1>1, <1>3, CardsAssumption DEF Used, Data
<1>6. \A h \in Groups : n.groups[h].key # NoCard => HasCard(n, h)
  <2> SUFFICES ASSUME NEW h \in Groups, n.groups[h].key # NoCard
               PROVE  HasCard(n, h)
    OBVIOUS
  <2>1. CASE h = g
    <3>1. n.groups[h].key = c
        BY <1>1, <1>3, <2>1 DEF Data, Authorization
    <3>2. n.used[c].group = g
        BY <1>1, <1>3 DEF Data
    <3>. QED BY <2>1, <3>1, <3>2, CardsAssumption DEF HasCard
  <2>2. CASE h # g
    <3>1. n.groups[h] = r.groups[h]
        BY <1>1, <1>3, <2>2 DEF Data
    <3>2. HasCard(r, h)
        BY <1>1, <2>2, <3>1
    <3>3. r.groups[h].key \in Used(r)
        BY <1>1, <3>2, CardsAssumption DEF HasCard, Used, Data
    <3>4. n.used[r.groups[h].key] = r.used[r.groups[h].key]
        BY <1>1, <1>2, <1>3, <3>3 DEF Data, Used
    <3>. QED BY <3>1, <3>2, <3>4 DEF HasCard
  <2>. QED BY <2>1, <2>2
<1>7. n.unused \cap Used(n) = {}
    BY <1>1, <1>3, <1>5 DEF Sound, Consistent
<1>8. n.unused \cup Used(n) \subseteq m \cup {c}
    BY <1>1, <1>3, <1>5 DEF Sound
<1>9. Sound(n, m \cup {c})
  <2>. HIDE DEF n
  <2>. QED BY <1>4, <1>6, <1>7, <1>8 DEF Sound, Consistent
<1>. QED BY <1>9 DEF r

\* A group keeps its card and gets another expiry.
LEMMA WithExpireSound ==
    ASSUME NEW d, NEW m, Sound(d, m), NEW g \in Groups, NEW e \in Expires,
           NEW l \in BOOLEAN
    PROVE  Sound(WithExpire(d, g, e, l), m)
<1> DEFINE k == d.groups[g].key
           a == Authorization(e, k, l)
           n == WithExpire(d, g, e, l)
           u == IF HasCard(d, g)
                THEN [d.used EXCEPT ![k] = [group |-> g, expire |-> e]]
                ELSE d.used
<1>1. k \in Cards \cup {NoCard} /\ (HasCard(d, g) => k \in Cards)
    BY KeyIsCard
<1>2. a \in [listed : BOOLEAN, expire : Expires,
             key : Cards \cup {NoCard}, lifelong : BOOLEAN] /\ a.key = k
    BY <1>1, AuthorizationTyped DEF Authorization
<1>3. /\ d.unused \in SUBSET Cards
      /\ d.used \in [Cards -> [group : Groups \cup {NoGroup}, expire : Expires]]
      /\ d.groups \in [Groups -> [listed : BOOLEAN, expire : Expires,
                                   key : Cards \cup {NoCard}, lifelong : BOOLEAN]]
      /\ d = [unused |-> d.unused, used |-> d.used, groups |-> d.groups]
    BY DEF Sound, Data
<1>4. n = [unused |-> d.unused, used |-> u,
           groups |-> [d.groups EXCEPT ![g] = a]]
  <2>1. n = [d EXCEPT !.groups[g] = a, !.used = u]
    BY DEF WithExpire
  <2>. HIDE DEF a, u, n
  <2>. QED BY <1>3, <2>1
<1>5. u \in [Cards -> [group : Groups \cup {NoGroup}, expire : Expires]]
    BY <1>1, <1>3
<1>6. \A c \in Cards : u[c].group = d.used[c].group
    BY <1>1, <1>3 DEF HasCard
<1>7. \A h \in Groups : n.groups[h].key = d.groups[h].key
  <2>. HIDE DEF a, u, n
  <2>. QED BY <1>2, <1>3, <1>4
<1>8. n \in Data
  <2>. HIDE DEF a, u, n
  <2>. QED BY <1>2, <1>3, <1>4, <1>5 DEF Data
<1>9. n.unused = d.unused /\ Used(n) = Used(d)
  <2>. HIDE DEF a, u, n
  <2>. QED BY <1>4, <1>6 DEF Used
<1>10. \A h \in Groups : n.groups[h].key # NoCard => HasCard(n, h)
  <2> SUFFICES ASSUME NEW h \in Groups, n.groups[h].key # NoCard
               PROVE  HasCard(n, h)
    OBVIOUS
  <2>1. d.groups[h].key \in Cards /\ HasCard(d, h)
    BY <1>7, KeyIsCard
  <2>2. n.used = u
    <3>. HIDE DEF a, u, n
    <3>. QED BY <1>4
  <2>. HIDE DEF a, u, n
  <2>. QED BY <1>6, <1>7, <2>1, <2>2 DEF HasCard
<1>11. Sound(n, m)
  <2>. HIDE DEF n
  <2>. QED BY <1>8, <1>9, <1>10 DEF Sound, Consistent
<1>. QED BY <1>11

\* A permanent marker without a card.
LEMMA MarkedSound ==
    ASSUME NEW d, NEW m, Sound(d, m), NEW g \in Groups
    PROVE  Sound([d EXCEPT !.groups[g] = Authorization(Forever, NoCard, TRUE)], m)
<1> DEFINE a == Authorization(Forever, NoCard, TRUE)
           n == [d EXCEPT !.groups[g] = a]
<1>1. a \in [listed : BOOLEAN, expire : Expires,
             key : Cards \cup {NoCard}, lifelong : BOOLEAN] /\ a.key = NoCard
    BY ExpiresFacts, AuthorizationTyped DEF Authorization
<1>2. n.unused = d.unused /\ n.used = d.used /\ n \in Data
      /\ n.groups = [d.groups EXCEPT ![g] = a]
  <2>. HIDE DEF a
  <2>. QED BY <1>1 DEF Sound, Data
<1>3. Used(n) = Used(d)
    BY <1>2 DEF Used
<1>4. \A h \in Groups : n.groups[h].key # NoCard => HasCard(n, h)
  <2>. HIDE DEF a, n
  <2>. QED BY <1>1, <1>2 DEF Sound, Data, Consistent, HasCard
<1>5. Sound(n, m)
  <2>. HIDE DEF n
  <2>. QED BY <1>2, <1>3, <1>4 DEF Sound, Consistent
<1>. QED BY <1>5

\* Groups that lose their authorization.
LEMMA WithoutSound ==
    ASSUME NEW d, NEW m, Sound(d, m), NEW gs
    PROVE  Sound(Without(d, gs), m)
<1> DEFINE n == Without(d, gs)
           r == [g \in Groups |-> IF g \in gs THEN Unlisted ELSE d.groups[g]]
<1>1. n.unused = d.unused /\ n.used = d.used /\ n.groups = r /\ n \in Data
    BY UnlistedTyped DEF Sound, Data, Without
<1>2. Used(n) = Used(d)
    BY <1>1 DEF Used
<1>3. \A h \in Groups : n.groups[h].key # NoCard => HasCard(n, h)
    BY <1>1 DEF Sound, Consistent, HasCard, Unlisted
<1>4. Sound(n, m)
  <2>. HIDE DEF n
  <2>. QED BY <1>1, <1>2, <1>3 DEF Sound, Consistent
<1>. QED BY <1>4

\* No used cards, and no group that one of them was current for.
LEMMA UsedDeletedSound ==
    ASSUME NEW d, NEW m, Sound(d, m)
    PROVE  Sound(UsedDeleted(d), m)
<1> DEFINE gs == {g \in Groups : d.groups[g].key \in Used(d)}
           w == Without(d, gs)
           n == [w EXCEPT !.used = [c \in Cards |-> NotUsed]]
<1>1. Sound(w, m)
    BY WithoutSound
<1>2. n = UsedDeleted(d)
    BY DEF UsedDeleted
<1>3. \A h \in Groups : w.groups[h].key = NoCard
  <2> SUFFICES ASSUME NEW h \in Groups
               PROVE  w.groups[h].key = NoCard
    OBVIOUS
  <2>1. w.groups[h] = IF h \in gs THEN Unlisted ELSE d.groups[h]
    BY DEF Without, Sound, Data
  <2>2. CASE h \in gs
    BY <2>1, <2>2 DEF Unlisted
  <2>3. CASE h \notin gs
    <3>1. d.groups[h].key \notin Used(d)
        BY <2>3
    <3>2. d.groups[h].key = NoCard
        BY <3>1, KeyIsCard, CardsAssumption DEF HasCard, Used
    <3>. QED BY <2>1, <2>3, <3>2
  <2>. QED BY <2>2, <2>3
<1>. HIDE DEF w
<1>4. n.unused = w.unused /\ n.groups = w.groups
      /\ n.used = [c \in Cards |-> NotUsed] /\ n \in Data
    BY <1>1, NotUsedTyped DEF Sound, Data
<1>5. Used(n) = {}
    BY <1>4 DEF Used, NotUsed
<1>. HIDE DEF n
<1>6. Sound(n, m)
    BY <1>1, <1>3, <1>4, <1>5 DEF Sound, Consistent
<1>. QED BY <1>2, <1>6

\* What a pull writes.
LEMMA RestoredSound ==
    ASSUME NEW d, NEW m, Sound(d, m), NEW g \in Groups, NEW a \in Records
    PROVE  Sound(Restored(d, g, a), m)
<1> DEFINE k == d.groups[g].key
           r == Authorization(RestoredExpire(a), k, d.groups[g].lifelong)
           n == [d EXCEPT !.groups[g] = r]
<1>1. CASE a.state = "missing"
    BY <1>1, WithoutSound DEF Restored
<1>2. CASE a.state # "missing"
  <2>1. RestoredExpire(a) \in Expires
    BY ExpiresFacts DEF RestoredExpire, Records
  <2>2. r \in [listed : BOOLEAN, expire : Expires,
               key : Cards \cup {NoCard}, lifelong : BOOLEAN] /\ r.key = k
    BY <2>1, KeyIsCard, AuthorizationTyped DEF Authorization
  <2>3. n = Restored(d, g, a)
    BY <1>2 DEF Restored
  <2>. HIDE DEF r
  <2>4. n.unused = d.unused /\ n.used = d.used /\ n \in Data
        /\ n.groups = [d.groups EXCEPT ![g] = r]
    BY <2>2 DEF Sound, Data
  <2>5. \A h \in Groups : n.groups[h].key = d.groups[h].key
    BY <2>2, <2>4 DEF Sound, Data
  <2>. HIDE DEF n
  <2>6. Used(n) = Used(d)
    BY <2>4 DEF Used
  <2>7. \A h \in Groups : n.groups[h].key # NoCard => HasCard(n, h)
    BY <2>4, <2>5 DEF Sound, Consistent, HasCard
  <2>8. Sound(n, m)
    BY <2>4, <2>6, <2>7 DEF Sound, Consistent
  <2>. QED BY <2>3, <2>8
<1>. QED BY <1>1, <1>2

-----------------------------------------------------------------------------
(* What every operation leaves behind.                                     *)

\* A copy in use is sound, so is what it is written back as.
LEMMA CopyIsSound ==
    ASSUME CardsInv, NEW p \in Processes, copy[p] # Idle
    PROVE  Sound(copy[p], minted)
BY DEF CardsInv, CopiesSound

\* The variables the file does not depend on.
OthersTyped ==
    /\ marked \in BOOLEAN
    /\ configured \subseteq Groups
    /\ minted \subseteq Cards
    /\ signed \subseteq minted
    /\ now \in 1 .. MaxNow
    /\ told \in {Nothing} \cup
                [group : Groups, card : Cards, expire : Expires]
    /\ mirror \in [Groups -> Records]
    /\ pulling \in Groups \cup {NoGroup}
    /\ answer \in {Nothing} \cup [group : Groups, auth : Records]

FilesSound ==
    /\ Sound(file, minted)
    /\ copy \in [Processes -> Data \cup {Idle}]
    /\ CopiesSound

LEMMA InvParts == CardsInv <=> FilesSound /\ OthersTyped
BY DEF CardsInv, FilesSound, OthersTyped, TypeOK, Sound

LEMMA InvPartsNext == CardsInv' <=> FilesSound' /\ OthersTyped'
BY InvParts, PTL

\* An operation that ends, whether what it made is stored or not.
LEMMA EndedSound ==
    ASSUME FilesSound, NEW p \in Processes, NEW d, Sound(d, minted'),
           minted \subseteq minted', file' \in {file, d},
           copy' = [copy EXCEPT ![p] = Idle]
    PROVE  FilesSound'
<1>1. Sound(file', minted')
    BY MoreMinted DEF FilesSound
<1>2. copy' \in [Processes -> Data \cup {Idle}]
    BY DEF FilesSound
<1>3. \A q \in Processes : copy'[q] # Idle => Sound(copy'[q], minted')
  <2> SUFFICES ASSUME NEW q \in Processes, copy'[q] # Idle
               PROVE  Sound(copy'[q], minted')
    OBVIOUS
  <2>1. copy'[q] = copy[q]
    BY DEF FilesSound
  <2>2. Sound(copy[q], minted)
    BY <2>1 DEF FilesSound, CopiesSound
  <2>. QED BY <2>1, <2>2, MoreMinted
<1>. QED BY <1>1, <1>2, <1>3 DEF FilesSound, CopiesSound

LEMMA SavedSound ==
    ASSUME CardsInv, NEW p \in Processes, NEW d, NEW stored,
           Sound(d, minted'), minted \subseteq minted', Save(p, d, stored)
    PROVE  FilesSound' /\ marked' \in BOOLEAN
<1>1. FilesSound /\ marked \in BOOLEAN
    BY InvParts DEF OthersTyped
<1>2. file' \in {file, d} /\ copy' = [copy EXCEPT ![p] = Idle]
    BY DEF Save
<1>3. marked' \in BOOLEAN
    BY <1>1 DEF Save
<1>. QED BY <1>1, <1>2, <1>3, EndedSound

LEMMA WrittenSound ==
    ASSUME CardsInv, NEW p \in Processes, NEW d, NEW stored,
           Sound(d, minted'), minted \subseteq minted', Write(p, d, stored)
    PROVE  FilesSound' /\ marked' \in BOOLEAN
<1>1. FilesSound /\ marked \in BOOLEAN
    BY InvParts DEF OthersTyped
<1>2. file' \in {file, d} /\ copy' = [copy EXCEPT ![p] = Idle]
    BY DEF Write
<1>3. marked' \in BOOLEAN
    BY <1>1 DEF Write
<1>. QED BY <1>1, <1>2, <1>3, EndedSound

\* A reduction is clamped to the past second, which is a time.
LEMMA ReducedTyped ==
    ASSUME CardsInv, NEW d \in Data, NEW g \in Groups,
           d.groups[g].expire # Forever,
           NEW days \in Periods \ {Forever}
    PROVE  ReducedExpire(d, g, days) \in Expires
<1>1. d.groups[g].expire \in 0 .. MaxExpire
    BY DEF Data, Expires
<1>2. days \in Nat /\ Day \in Nat
    BY CardsAssumption
<1>3. days * Day \in Nat
    BY <1>2
<1>4. now \in 1 .. MaxNow
    BY DEF CardsInv, TypeOK
<1>5. MaxNow \in Nat /\ MaxExpire \in Nat /\ MaxNow - 1 <= MaxExpire
    BY CardsAssumption
<1> DEFINE x == days * Day
           e == d.groups[g].expire
<1>6. ReducedExpire(d, g, days) = IF e - x < now THEN now - 1 ELSE e - x
    BY DEF ReducedExpire
<1>7. x \in Nat /\ e \in 0 .. MaxExpire
    BY <1>1, <1>3
<1>. HIDE DEF x, e
<1>8. (IF e - x < now THEN now - 1 ELSE e - x) \in 0 .. MaxExpire
    BY <1>4, <1>5, <1>7
<1>. QED BY <1>6, <1>8 DEF Expires

\* What the owner is told names a card, a group and a time.
LEMMA ToldTyped ==
    ASSUME NEW g \in Groups, NEW c \in Cards \cup {NoCard}, NEW e \in Expires,
           Tell(g, c, e)
    PROVE  told' \in {Nothing} \cup
                [group : Groups, card : Cards, expire : Expires]
BY DEF Tell

-----------------------------------------------------------------------------
(* Each action keeps the invariant.                                        *)

LEMMA InitKeeps == CardsInit => CardsInv
<1> SUFFICES ASSUME CardsInit PROVE CardsInv
    OBVIOUS
<1> DEFINE gs == [g \in Groups |->
                    IF g \in Legacy THEN Authorization(MaxExpire, NoCard, FALSE)
                    ELSE Unlisted]
<1>1. file.unused = {} /\ file.used = [c \in Cards |-> NotUsed]
      /\ file.groups = gs /\ file \in Data
  <2>1. Authorization(MaxExpire, NoCard, FALSE) \in
            [listed : BOOLEAN, expire : Expires,
             key : Cards \cup {NoCard}, lifelong : BOOLEAN]
    BY ExpiresFacts, AuthorizationTyped
  <2>2. gs \in [Groups -> [listed : BOOLEAN, expire : Expires,
                           key : Cards \cup {NoCard}, lifelong : BOOLEAN]]
    BY <2>1, UnlistedTyped
  <2>3. file = [Empty EXCEPT !.groups = gs]
    BY DEF CardsInit
  <2>. HIDE DEF gs
  <2>. QED BY <2>2, <2>3, NotUsedTyped DEF Empty, Data
<1>2. \A g \in Groups : gs[g].key = NoCard
    BY DEF Authorization, Unlisted
<1>3. Used(file) = {}
    BY <1>1 DEF Used, NotUsed
<1>. HIDE DEF gs
<1>4. Sound(file, minted)
    BY <1>1, <1>2, <1>3 DEF Sound, Consistent
<1>5. CopiesSound /\ copy \in [Processes -> Data \cup {Idle}]
    BY DEF CardsInit, CopiesSound
<1>6. OthersTyped
  <2>1. mirror \in [Groups -> Records]
    BY ExpiresFacts DEF CardsInit, Missing, Records
  <2>2. now \in 1 .. MaxNow
    BY CardsAssumption DEF CardsInit
  <2>. QED BY <2>1, <2>2, CardsAssumption DEF CardsInit, OthersTyped
<1>. QED BY <1>4, <1>5, <1>6, InvParts DEF FilesSound

LEMMA LoadKeeps ==
    ASSUME CardsInv, NEW p \in Processes, Load(p)
    PROVE  CardsInv'
<1>1. PICK d \in Readings : /\ copy' = [copy EXCEPT ![p] = d]
                            /\ marked' = (marked \/ Listed(d) # {})
    BY DEF Load
<1>2. Sound(d, minted)
    BY EmptySound DEF CardsInv, Readings
<1>3. FilesSound
    BY InvParts
<1>4. minted' = minted /\ file' = file
    BY DEF Load
<1>5. copy' \in [Processes -> Data \cup {Idle}]
    BY <1>1, <1>2, <1>3 DEF FilesSound, Sound
<1>6. \A q \in Processes : copy'[q] # Idle => Sound(copy'[q], minted)
    BY <1>1, <1>2, <1>3 DEF FilesSound, CopiesSound
<1>7. FilesSound'
    BY <1>3, <1>4, <1>5, <1>6 DEF FilesSound, CopiesSound
<1>8. OthersTyped
    BY InvParts
<1>9. OthersTyped'
  <2>1. told' \in {Nothing, told} /\ marked' \in BOOLEAN
    BY <1>1, <1>8 DEF Load, OthersTyped
  <2>. QED BY <1>8, <2>1 DEF Load, OthersTyped, portalVars
<1>. QED BY <1>7, <1>9, InvPartsNext

LEMMA DeclineKeeps ==
    ASSUME CardsInv, NEW p \in Processes, Decline(p)
    PROVE  CardsInv'
<1>1. FilesSound /\ OthersTyped
    BY InvParts
<1>2. FilesSound'
    BY <1>1, EndedSound DEF Decline, FilesSound
<1>3. OthersTyped'
    BY <1>1 DEF Decline, OthersTyped, portalVars
<1>. QED BY <1>2, <1>3, InvPartsNext

LEMMA GenerateKeeps ==
    ASSUME CardsInv, NEW p \in Processes, Generate(p)
    PROVE  CardsInv'
<1>1. PICK c \in Cards \ minted, stored \in Outcomes :
        /\ Save(p, [copy[p] EXCEPT !.unused = @ \cup {c}], stored)
        /\ minted' = minted \cup {c}
        /\ signed' = signed \cup {c}
    BY DEF Generate
<1>2. Sound(copy[p], minted)
    BY CopyIsSound DEF Generate, In
<1>3. Sound([copy[p] EXCEPT !.unused = @ \cup {c}], minted')
    BY <1>1, <1>2, AddedSound
<1>4. FilesSound' /\ marked' \in BOOLEAN
    BY <1>1, <1>3, SavedSound
<1>5. OthersTyped'
    BY <1>1, <1>4, InvParts DEF Generate, OthersTyped, portalVars
<1>. QED BY <1>4, <1>5, InvPartsNext

LEMMA RemoveUnusedKeeps ==
    ASSUME CardsInv, RemoveUnused
    PROVE  CardsInv'
<1>1. PICK c \in copy["web"].unused, stored \in Outcomes :
        Save("web", [copy["web"] EXCEPT !.unused = @ \ {c}], stored)
    BY DEF RemoveUnused
<1>2. "web" \in Processes /\ Sound(copy["web"], minted)
    BY CopyIsSound DEF RemoveUnused, In
<1>3. Sound([copy["web"] EXCEPT !.unused = @ \ {c}], minted)
    BY <1>2, RemovedSound
<1>4. minted' = minted
    BY DEF RemoveUnused
<1>5. FilesSound' /\ marked' \in BOOLEAN
    BY <1>1, <1>2, <1>3, <1>4, SavedSound
<1>6. OthersTyped'
    BY <1>5, InvParts DEF RemoveUnused, OthersTyped, portalVars
<1>. QED BY <1>5, <1>6, InvPartsNext

LEMMA ActivateKeeps ==
    ASSUME CardsInv, NEW g \in Groups, Activate(g)
    PROVE  CardsInv'
<1> DEFINE d == copy["bot"]
<1>1. PICK c \in Cards, stored \in Outcomes :
        LET expire == Later(d.groups[g].expire, DaysOf[c])
        IN  /\ Activatable(d, g, c)
            /\ expire \in Expires
            /\ Write("bot", WithCard(d, g, c, expire), stored)
            /\ configured' = IF stored THEN configured \cup {g} ELSE configured
    BY DEF Activate
<1> DEFINE expire == Later(d.groups[g].expire, DaysOf[c])
<1>2. "bot" \in Processes /\ Sound(d, minted)
    BY CopyIsSound DEF Activate, In
<1>3. c \in minted /\ c \notin Used(d) /\ expire \in Expires
    BY <1>1, <1>2 DEF Sound, Activatable
<1>. HIDE DEF d, expire
<1>4. Sound(WithCard(d, g, c, expire), minted)
    BY <1>2, <1>3, WithCardSound
<1>5. minted' = minted
    BY DEF Activate
<1>6. Write("bot", WithCard(d, g, c, expire), stored)
      /\ configured' \in {configured, configured \cup {g}}
    BY <1>1 DEF d, expire
<1>7. FilesSound' /\ marked' \in BOOLEAN
    BY <1>2, <1>4, <1>5, <1>6, WrittenSound
<1>8. OthersTyped'
    BY <1>6, <1>7, InvParts DEF Activate, OthersTyped, portalVars
<1>. QED BY <1>7, <1>8, InvPartsNext

\* The two ways a grant ends.
LEMMA IssueTyped ==
    ASSUME CardsInv, NEW g \in Groups, NEW expire \in Expires, NEW stored,
           In("bot", "grant") \/ In("bot", "reissue"),
           Issue(g, expire, stored)
    PROVE  /\ FilesSound' /\ marked' \in BOOLEAN
           /\ minted' \subseteq Cards /\ signed' \subseteq minted'
           /\ told' \in {Nothing} \cup
                [group : Groups, card : Cards, expire : Expires]
<1> DEFINE d == copy["bot"]
<1>1. PICK c \in Cards \ minted :
        /\ Write("bot", WithCard(Replaced(d, g), g, c, expire), stored)
        /\ minted' = minted \cup {c}
        /\ signed' = signed \cup {c}
        /\ IF stored THEN Tell(g, c, expire) ELSE told' = Nothing
    BY DEF Issue
<1>2. "bot" \in Processes /\ Sound(d, minted)
    BY CopyIsSound DEF In
<1>. HIDE DEF d
<1>3. Sound(WithCard(Replaced(d, g), g, c, expire), minted')
    BY <1>1, <1>2, IssuedSound
<1>4. FilesSound' /\ marked' \in BOOLEAN
    BY <1>1, <1>2, <1>3, WrittenSound
<1>5. told' \in {Nothing} \cup
                [group : Groups, card : Cards, expire : Expires]
    BY <1>1, ToldTyped
<1>6. minted \subseteq Cards /\ signed \subseteq minted
    BY InvParts DEF OthersTyped
<1>. QED BY <1>1, <1>4, <1>5, <1>6

LEMMA KeepTyped ==
    ASSUME CardsInv, NEW g \in Groups, NEW expire \in Expires,
           NEW lifelong \in BOOLEAN, NEW stored,
           In("bot", "grant") \/ In("bot", "reissue"),
           Keep(g, expire, lifelong, stored)
    PROVE  /\ FilesSound' /\ marked' \in BOOLEAN
           /\ minted' \subseteq Cards /\ signed' \subseteq minted'
           /\ told' \in {Nothing} \cup
                [group : Groups, card : Cards, expire : Expires]
<1> DEFINE d == copy["bot"]
<1>1. /\ Write("bot", WithExpire(d, g, expire, lifelong), stored)
      /\ IF stored THEN Tell(g, d.groups[g].key, expire) ELSE told' = Nothing
      /\ minted' = minted /\ signed' = signed
    BY DEF Keep
<1>2. "bot" \in Processes /\ Sound(d, minted)
    BY CopyIsSound DEF In
<1>. HIDE DEF d
<1>3. Sound(WithExpire(d, g, expire, lifelong), minted')
    BY <1>1, <1>2, WithExpireSound
<1>4. FilesSound' /\ marked' \in BOOLEAN
    BY <1>1, <1>2, <1>3, WrittenSound
<1>5. told' \in {Nothing} \cup
                [group : Groups, card : Cards, expire : Expires]
    BY <1>1, <1>2, KeyIsCard, ToldTyped
<1>6. minted \subseteq Cards /\ signed \subseteq minted
    BY InvParts DEF OthersTyped
<1>. QED BY <1>1, <1>4, <1>5, <1>6

LEMMA GrantKeeps ==
    ASSUME CardsInv, NEW g \in Groups, Grant(g)
    PROVE  CardsInv'
<1>1. PICK days \in Periods, stored \in Outcomes :
        LET expire == GrantedExpire(copy["bot"], g, days)
        IN  /\ expire \in Expires
            /\ IF HasValidCard(copy["bot"], g)
               THEN Keep(g, expire, expire = Forever, stored)
               ELSE Issue(g, expire, stored)
            /\ configured' = IF stored THEN configured \cup {g} ELSE configured
    BY DEF Grant
<1> DEFINE expire == GrantedExpire(copy["bot"], g, days)
<1>2. /\ expire \in Expires
      /\ Keep(g, expire, expire = Forever, stored) \/ Issue(g, expire, stored)
      /\ configured' \in {configured, configured \cup {g}}
    BY <1>1
<1>3. In("bot", "grant")
    BY DEF Grant
<1>. HIDE DEF expire
<1>4. /\ FilesSound' /\ marked' \in BOOLEAN
      /\ minted' \subseteq Cards /\ signed' \subseteq minted'
      /\ told' \in {Nothing} \cup
            [group : Groups, card : Cards, expire : Expires]
  <2>1. CASE Keep(g, expire, expire = Forever, stored)
    <3>1. (expire = Forever) \in BOOLEAN
        OBVIOUS
    <3>. QED BY <1>2, <1>3, <2>1, <3>1, KeepTyped
  <2>2. CASE Issue(g, expire, stored)
    BY <1>2, <1>3, <2>2, IssueTyped
  <2>. QED BY <1>2, <2>1, <2>2
<1>5. OthersTyped'
    BY <1>2, <1>4, InvParts DEF Grant, OthersTyped, portalVars
<1>. QED BY <1>4, <1>5, InvPartsNext

LEMMA ReissueKeeps ==
    ASSUME CardsInv, NEW g \in Groups, Reissue(g)
    PROVE  CardsInv'
<1> DEFINE r == copy["bot"].groups[g]
<1>1. PICK stored \in Outcomes :
        IF HasValidCard(copy["bot"], g)
        THEN Keep(g, r.expire, r.lifelong, stored)
        ELSE Issue(g, r.expire, stored)
    BY DEF Reissue
<1>2. In("bot", "reissue")
    BY DEF Reissue
<1>3. Sound(copy["bot"], minted)
    BY <1>2, CopyIsSound DEF In
<1>4. r.expire \in Expires /\ r.lifelong \in BOOLEAN
    BY <1>3, KeyIsCard
<1>. HIDE DEF r
<1>5. /\ FilesSound' /\ marked' \in BOOLEAN
      /\ minted' \subseteq Cards /\ signed' \subseteq minted'
      /\ told' \in {Nothing} \cup
            [group : Groups, card : Cards, expire : Expires]
    BY <1>1, <1>2, <1>4, KeepTyped, IssueTyped
<1>6. OthersTyped'
    BY <1>5, InvParts DEF Reissue, OthersTyped, portalVars
<1>. QED BY <1>5, <1>6, InvPartsNext

LEMMA AddTimeKeeps ==
    ASSUME CardsInv, NEW g \in Groups, AddTime(g)
    PROVE  CardsInv'
<1> DEFINE d == copy["bot"]
<1>1. PICK days \in Periods, stored \in Outcomes :
        LET r == d.groups[g]
            expire == GrantedExpire(d, g, days)
            made == IF r.listed
                    THEN WithExpire(d, g, expire, days = Forever)
                    ELSE [d EXCEPT
                            !.groups[g] = Authorization(Forever, NoCard, TRUE)]
        IN  /\ r.listed \/ days = Forever
            /\ expire \in Expires
            /\ IF r.listed /\ r.expire = Forever /\ days # Forever
               THEN Save("bot", file, FALSE)
               ELSE Save("bot", made, stored)
            /\ Tell(g, file'.groups[g].key, file'.groups[g].expire)
    BY DEF AddTime
<1> DEFINE r == d.groups[g]
           expire == GrantedExpire(d, g, days)
           kept == WithExpire(d, g, expire, days = Forever)
           fresh == [d EXCEPT !.groups[g] = Authorization(Forever, NoCard, TRUE)]
<1>2. /\ expire \in Expires
      /\ \/ Save("bot", file, FALSE)
         \/ Save("bot", kept, stored)
         \/ Save("bot", fresh, stored)
      /\ Tell(g, file'.groups[g].key, file'.groups[g].expire)
    BY <1>1
<1>3. "bot" \in Processes /\ Sound(d, minted) /\ minted' = minted
    BY CopyIsSound DEF AddTime, In
<1>4. Sound(file, minted)
    BY DEF CardsInv
<1>5. Sound(kept, minted)
  <2>1. (days = Forever) \in BOOLEAN
    OBVIOUS
  <2>. HIDE DEF d, expire
  <2>. QED BY <1>2, <1>3, <2>1, WithExpireSound
<1>6. Sound(fresh, minted)
    BY <1>3, MarkedSound
<1>. HIDE DEF d, kept, fresh
<1>7. FilesSound' /\ marked' \in BOOLEAN
    BY <1>2, <1>3, <1>4, <1>5, <1>6, SavedSound
<1>8. file' \in Data
    BY <1>7 DEF FilesSound, Sound
<1>9. file'.groups[g].key \in Cards \cup {NoCard}
      /\ file'.groups[g].expire \in Expires
    BY <1>8 DEF Data
<1>10. told' \in {Nothing} \cup
            [group : Groups, card : Cards, expire : Expires]
    BY <1>2, <1>9, ToldTyped
<1>11. OthersTyped'
    BY <1>7, <1>10, InvParts DEF AddTime, OthersTyped, portalVars
<1>. QED BY <1>7, <1>11, InvPartsNext

LEMMA ReduceTimeKeeps ==
    ASSUME CardsInv, NEW g \in Groups, ReduceTime(g)
    PROVE  CardsInv'
<1> DEFINE d == copy["bot"]
<1>1. PICK days \in Periods \ {Forever}, stored \in Outcomes :
        Save("bot", WithExpire(d, g, ReducedExpire(d, g, days), FALSE), stored)
    BY DEF ReduceTime
<1>2. "bot" \in Processes /\ Sound(d, minted) /\ minted' = minted
    BY CopyIsSound DEF ReduceTime, In
<1>3. d.groups[g].expire # Forever
    BY DEF ReduceTime
<1>. HIDE DEF d
<1>4. ReducedExpire(d, g, days) \in Expires
    BY <1>2, <1>3, ReducedTyped DEF Sound
<1>5. Sound(WithExpire(d, g, ReducedExpire(d, g, days), FALSE), minted')
    BY <1>2, <1>4, WithExpireSound
<1>6. FilesSound' /\ marked' \in BOOLEAN
    BY <1>1, <1>2, <1>5, SavedSound
<1>7. OthersTyped'
    BY <1>6, InvParts DEF ReduceTime, OthersTyped, portalVars
<1>. QED BY <1>6, <1>7, InvPartsNext

LEMMA PowerOffKeeps ==
    ASSUME CardsInv, NEW g \in Groups, Deauthorize(g) \/ CleanUp(g)
    PROVE  CardsInv'
<1> DEFINE d == copy["bot"]
<1>1. /\ PowerOff(g) /\ minted' = minted /\ signed' = signed /\ now' = now
      /\ told' = told /\ mirror' = mirror /\ pulling' = pulling
      /\ answer' = answer
    BY DEF Deauthorize, CleanUp, portalVars
<1>2. "bot" \in Processes /\ Sound(d, minted) /\ Sound(file, minted)
    BY CopyIsSound DEF Deauthorize, CleanUp, In, CardsInv
<1>. HIDE DEF d
<1>3. Sound(Without(d, {g}), minted)
    BY <1>2, WithoutSound
<1>4. FilesSound' /\ marked' \in BOOLEAN
  <2>1. CASE \E stored \in Outcomes : Save("bot", Without(d, {g}), stored)
    BY <1>1, <1>2, <1>3, <2>1, SavedSound
  <2>2. CASE Save("bot", file, FALSE)
    BY <1>1, <1>2, <2>2, SavedSound
  <2>. QED BY <1>1, <2>1, <2>2 DEF PowerOff, d
<1>5. configured' \in {configured, configured \ {g}}
    BY <1>1 DEF PowerOff
<1>6. OthersTyped'
    BY <1>1, <1>4, <1>5, InvParts DEF OthersTyped
<1>. QED BY <1>4, <1>6, InvPartsNext

LEMMA DeleteKeeps ==
    ASSUME CardsInv, DeleteUsed \/ DeleteAll
    PROVE  CardsInv'
<1> DEFINE d == copy["bot"]
<1>1. "bot" \in Processes /\ Sound(d, minted)
    BY CopyIsSound DEF DeleteUsed, DeleteAll, In
<1>2. UNCHANGED <<configured, minted, signed, now, told, portalVars>>
    BY DEF DeleteUsed, DeleteAll
<1>. HIDE DEF d
<1>3. Sound(UsedDeleted(d), minted)
    BY <1>1, UsedDeletedSound
<1>4. Sound([UsedDeleted(d) EXCEPT !.unused = {}], minted)
    BY <1>3, RemovedSound
<1>5. FilesSound' /\ marked' \in BOOLEAN
  <2>1. CASE DeleteUsed
    <3>1. PICK stored \in Outcomes : Save("bot", UsedDeleted(d), stored)
        BY <2>1 DEF DeleteUsed, d
    <3>. QED BY <1>1, <1>2, <1>3, <3>1, SavedSound
  <2>2. CASE DeleteAll
    <3>1. PICK stored \in Outcomes :
            Save("bot", [UsedDeleted(d) EXCEPT !.unused = {}], stored)
        BY <2>2 DEF DeleteAll, d
    <3>. QED BY <1>1, <1>2, <1>4, <3>1, SavedSound
  <2>. QED BY <2>1, <2>2
<1>6. OthersTyped'
    BY <1>2, <1>5, InvParts DEF OthersTyped, portalVars
<1>. QED BY <1>5, <1>6, InvPartsNext

LEMMA SynchronizeKeeps ==
    ASSUME CardsInv, Synchronize
    PROVE  CardsInv'
<1>1. PICK d \in Readings : /\ marked' = (marked \/ Listed(d) # {})
                            /\ Exchange(d = file /\ marked')
    BY DEF Synchronize
<1>2. FilesSound /\ OthersTyped /\ file \in Data
    BY InvParts DEF FilesSound, Sound
<1> DEFINE complete == d = file /\ marked'
<1>3. Doubted(complete) \in [Groups -> Records]
    BY <1>2 DEF Doubted, OthersTyped, Records
<1>4. \A g \in Groups : Projected(file.groups[g]) \in Records
    BY <1>2, ExpiresFacts DEF Projected, Missing, Records, Data
<1>. HIDE DEF complete
<1>5. Exchange(complete)
    BY <1>1 DEF complete
<1>6. mirror' \in [Groups -> Records]
    BY <1>3, <1>4, <1>5 DEF Exchange
<1>7. answer' \in {Nothing} \cup [group : Groups, auth : Records]
    BY <1>2, <1>3, <1>5 DEF Exchange, OthersTyped
<1>8. FilesSound'
    BY <1>2 DEF Synchronize, FilesSound, CopiesSound
<1>9. OthersTyped'
    BY <1>1, <1>2, <1>6, <1>7 DEF Synchronize, OthersTyped
<1>. QED BY <1>8, <1>9, InvPartsNext

LEMMA RestoreKeeps ==
    ASSUME CardsInv, Restore
    PROVE  CardsInv'
<1> DEFINE d == copy["bot"]
<1>1. PICK stored \in Outcomes :
        /\ Save("bot", Restored(d, answer.group, answer.auth), stored)
        /\ configured' \in {configured, configured \cup {answer.group}}
        /\ pulling' \in {pulling, NoGroup}
    BY DEF Restore
<1>2. "bot" \in Processes /\ Sound(d, minted) /\ OthersTyped
    BY CopyIsSound, InvParts DEF Restore, In
<1>3. answer.group \in Groups /\ answer.auth \in Records
    BY <1>2 DEF Restore, OthersTyped
<1>. HIDE DEF d
<1>4. Sound(Restored(d, answer.group, answer.auth), minted)
    BY <1>2, <1>3, RestoredSound
<1>5. minted' = minted
    BY DEF Restore
<1>6. FilesSound' /\ marked' \in BOOLEAN
    BY <1>1, <1>2, <1>4, <1>5, SavedSound
<1>7. OthersTyped'
    BY <1>1, <1>2, <1>3, <1>6 DEF Restore, OthersTyped
<1>. QED BY <1>6, <1>7, InvPartsNext

LEMMA RestKeeps ==
    ASSUME CardsInv,
           \/ \E g \in Groups : RequestPull(g)
           \/ Retoken
           \/ Tick
    PROVE  CardsInv'
<1>1. FilesSound /\ OthersTyped
    BY InvParts
<1>2. FilesSound'
    BY <1>1 DEF RequestPull, Retoken, Tick, FilesSound, CopiesSound
<1>3. CASE \E g \in Groups : RequestPull(g)
  <2>1. OthersTyped'
    BY <1>1, <1>3 DEF RequestPull, OthersTyped
  <2>. QED BY <1>2, <2>1, InvPartsNext
<1>4. CASE Retoken
  <2>1. OthersTyped'
    BY <1>1, <1>4 DEF Retoken, OthersTyped, portalVars
  <2>. QED BY <1>2, <2>1, InvPartsNext
<1>5. CASE Tick
  <2>1. now' \in 1 .. MaxNow
    BY <1>1, <1>5, CardsAssumption DEF Tick, OthersTyped
  <2>2. OthersTyped'
    BY <1>1, <1>5, <2>1 DEF Tick, OthersTyped, portalVars
  <2>. QED BY <1>2, <2>2, InvPartsNext
<1>. QED BY <1>3, <1>4, <1>5

LEMMA StutterKeeps ==
    ASSUME CardsInv, UNCHANGED cardVars
    PROVE  CardsInv'
<1>1. FilesSound /\ OthersTyped
    BY InvParts
<1>2. FilesSound'
    BY <1>1 DEF cardVars, FilesSound, CopiesSound
<1>3. OthersTyped'
    BY <1>1 DEF cardVars, OthersTyped
<1>. QED BY <1>2, <1>3, InvPartsNext

LEMMA CardsStepKeeps ==
    ASSUME CardsInv, [CardsNext]_cardVars
    PROVE  CardsInv'
<1>1. CASE \E p \in Processes : Load(p) \/ Decline(p) \/ Generate(p)
    BY <1>1, LoadKeeps, DeclineKeeps, GenerateKeeps
<1>2. CASE RemoveUnused
    BY <1>2, RemoveUnusedKeeps
<1>3. CASE \E g \in Groups : \/ Activate(g)
                             \/ Grant(g)
                             \/ Reissue(g)
                             \/ AddTime(g)
                             \/ ReduceTime(g)
    BY <1>3, ActivateKeeps, GrantKeeps, ReissueKeeps, AddTimeKeeps,
       ReduceTimeKeeps
<1>4. CASE \E g \in Groups : Deauthorize(g) \/ CleanUp(g)
    BY <1>4, PowerOffKeeps
<1>5. CASE DeleteUsed \/ DeleteAll
    BY <1>5, DeleteKeeps
<1>6. CASE Synchronize
    BY <1>6, SynchronizeKeeps
<1>7. CASE Restore
    BY <1>7, RestoreKeeps
<1>8. CASE (\E g \in Groups : RequestPull(g)) \/ Retoken \/ Tick
    BY <1>8, RestKeeps
<1>9. CASE UNCHANGED cardVars
    BY <1>9, StutterKeeps
<1>. QED
    BY <1>1, <1>2, <1>3, <1>4, <1>5, <1>6, <1>7, <1>8, <1>9 DEF CardsNext

-----------------------------------------------------------------------------
(* The theorems.                                                           *)

\* The file and every copy a process still holds are sound, whatever the
\* processes do between the copies' reading and their writing back.
THEOREM CardsInvariance == CardsSpec => []CardsInv
<1>1. CardsInit => CardsInv
    BY InitKeeps
<1>2. CardsInv /\ [CardsNext]_cardVars => CardsInv'
    BY CardsStepKeeps
<1>. QED BY <1>1, <1>2, PTL DEF CardsSpec

\* Every variable keeps its type; no operation writes an expiry outside the
\* clock's range or one that reads as "permanent" by accident.
THEOREM CardsTypeCorrect == CardsSpec => []TypeOK
<1>1. CardsInv => TypeOK
    BY DEF CardsInv
<1>. QED BY <1>1, CardsInvariance, PTL

\* In auth.json no card is both unused and used, and the card a group is
\* authorized by is a used card of this group: the bot's commands, the
\* portal's and the pulls keep it so, in any interleaving of two processes.
THEOREM CardsConsistentAlways == CardsSpec => []CardsConsistent
<1>1. CardsInv => CardsConsistent
    BY DEF CardsInv, Sound, CardsConsistent
<1>. QED BY <1>1, CardsInvariance, PTL

-----------------------------------------------------------------------------
(* What an operation makes of the copy it works on, however old that copy  *)
(* is: `fresh' are the cards the operation generates.                      *)

InStep(d) ==
    \A g \in Groups :
        HasCard(d, g) => d.used[d.groups[g].key].expire = d.groups[g].expire

\* What a file keeps of the one it was made of.
PermanentKept(d, n) ==
    \A g \in Listed(d) \cap Listed(n) :
        d.groups[g].expire = Forever => n.groups[g].expire = Forever

\* No card returns: an unused one was unused or is new, and a used one was
\* used by the same group or could still be activated.
CardsKept(d, n, fresh) ==
    /\ n.unused \subseteq d.unused \cup fresh
    /\ \A c \in Used(n) : \/ c \in d.unused \cup fresh
                          \/ n.used[c].group = d.used[c].group

Follows(d, n, fresh) ==
    /\ InStep(d) => InStep(n)
    /\ PermanentKept(d, n)
    /\ CardsKept(d, n, fresh)

LEMMA ItselfFollows ==
    ASSUME NEW d, NEW fresh
    PROVE  Follows(d, d, fresh)
BY DEF Follows, PermanentKept, CardsKept

LEMMA UnusedFollows ==
    ASSUME NEW d, NEW m, Sound(d, m), NEW fresh, NEW u,
           u \subseteq d.unused \cup fresh
    PROVE  Follows(d, [d EXCEPT !.unused = u], fresh)
<1> DEFINE e == [d EXCEPT !.unused = u]
<1>1. e.used = d.used /\ e.groups = d.groups /\ e.unused = u
    BY DEF Sound, Data
<1>. HIDE DEF e
<1>2. InStep(d) => InStep(e)
    BY <1>1 DEF InStep, HasCard
<1>3. CardsKept(d, e, fresh)
    BY <1>1 DEF CardsKept, Used
<1>. QED BY <1>1, <1>2, <1>3 DEF Follows, PermanentKept, e

\* A replacement leaves the cards of the other groups alone.
LEMMA ReplacedOthers ==
    ASSUME NEW d, NEW m, Sound(d, m), NEW g \in Groups, NEW h \in Groups \ {g},
           d.groups[h].key # NoCard
    PROVE  Replaced(d, g).used[d.groups[h].key] = d.used[d.groups[h].key]
<1>1. CASE ~HasCard(d, g)
    BY <1>1 DEF Replaced
<1>2. CASE HasCard(d, g)
  <2> DEFINE k == d.groups[g].key
  <2>1. k \in Cards /\ d.groups[h].key # k /\ d.groups[h].key \in Cards
    BY <1>2, KeyIsCard, KeyIsOwn, CardsAssumption
  <2>2. Replaced(d, g).used = [d.used EXCEPT ![k] = NotUsed]
    BY <1>2, <2>1 DEF Replaced, Sound, Data
  <2>. QED BY <2>1, <2>2 DEF Sound, Data
<1>. QED BY <1>1, <1>2

LEMMA ReplacedUsed ==
    ASSUME NEW d, NEW m, Sound(d, m), NEW g \in Groups, NEW x \in Cards
    PROVE  Replaced(d, g).used[x] \in {d.used[x], NotUsed}
<1>1. CASE ~HasCard(d, g)
    BY <1>1 DEF Replaced
<1>2. CASE HasCard(d, g)
  <2>1. Replaced(d, g).used = [d.used EXCEPT ![d.groups[g].key] = NotUsed]
    BY <1>2 DEF Replaced, Sound, Data
  <2>. QED BY <2>1 DEF Sound, Data
<1>. QED BY <1>1, <1>2

\* A card nobody uses becomes the current one, of a group that keeps its
\* expiry if that is for ever; `b' is the file, perhaps without the card that
\* is replaced.
LEMMA WithCardFollows ==
    ASSUME NEW d, NEW m, Sound(d, m), NEW g \in Groups, NEW c \in Cards,
           NEW e, d.groups[g].expire = Forever => e = Forever, NEW fresh,
           c \in d.unused \cup fresh, c \notin Used(d),
           NEW b \in {d, Replaced(d, g)}
    PROVE  Follows(d, WithCard(b, g, c, e), fresh)
<1> DEFINE n == WithCard(b, g, c, e)
<1>1. b \in Data /\ b.unused = d.unused /\ b.groups = d.groups
    BY ReplacedSound DEF Sound
<1>2. /\ n.unused = d.unused \ {c}
      /\ n.used = [b.used EXCEPT ![c] = [group |-> g, expire |-> e]]
      /\ n.groups = [d.groups EXCEPT ![g] = Authorization(e, c, e = Forever)]
    BY <1>1 DEF WithCard
<1>3. /\ n.used[c] = [group |-> g, expire |-> e]
      /\ \A k \in Cards \ {c} : n.used[k] = b.used[k]
      /\ n.groups[g] = Authorization(e, c, e = Forever)
      /\ \A h \in Groups \ {g} : n.groups[h] = d.groups[h]
    BY <1>1, <1>2 DEF Sound, Data
<1>. HIDE DEF n
<1>4. InStep(d) => InStep(n)
  <2> SUFFICES ASSUME InStep(d), NEW h \in Groups, HasCard(n, h)
               PROVE  n.used[n.groups[h].key].expire = n.groups[h].expire
    BY DEF InStep
  <2>1. CASE h = g
    BY <1>3, <2>1 DEF Authorization
  <2>2. CASE h # g
    <3> DEFINE k == d.groups[h].key
    <3>1. n.groups[h] = d.groups[h] /\ k # NoCard
        BY <1>3, <2>2 DEF HasCard
    <3>2. HasCard(d, h) /\ k \in Cards
        BY <3>1, KeyIsCard
    <3>3. k # c
        BY <3>2, CardsAssumption DEF HasCard, Used
    <3>4. b.used[k] = d.used[k]
        BY <2>2, <3>1, ReplacedOthers
    <3>5. d.used[k].expire = d.groups[h].expire
        BY <3>2 DEF InStep
    <3>. QED BY <1>3, <3>1, <3>2, <3>3, <3>4, <3>5
  <2>. QED BY <2>1, <2>2
<1>5. PermanentKept(d, n)
  <2> SUFFICES ASSUME NEW h \in Groups, d.groups[h].expire = Forever
               PROVE  n.groups[h].expire = Forever
    BY DEF PermanentKept, Listed
  <2>. QED BY <1>3 DEF Authorization
<1>6. CardsKept(d, n, fresh)
  <2>1. n.unused \subseteq d.unused
    BY <1>2
  <2>2. ASSUME NEW x \in Used(n), x # c
        PROVE  n.used[x].group = d.used[x].group
    <3>1. x \in Cards /\ n.used[x] = b.used[x] /\ n.used[x].group # NoGroup
        BY <1>3, <2>2 DEF Used
    <3>2. b.used[x] \in {d.used[x], NotUsed}
        BY <3>1, ReplacedUsed
    <3>. QED BY <3>1, <3>2 DEF NotUsed
  <2>. QED BY <2>1, <2>2 DEF CardsKept
<1>. QED BY <1>4, <1>5, <1>6 DEF Follows, n

LEMMA WithExpireFollows ==
    ASSUME NEW d, NEW m, Sound(d, m), NEW g \in Groups, NEW e, NEW fresh,
           NEW l, d.groups[g].listed /\ d.groups[g].expire = Forever => e = Forever
    PROVE  Follows(d, WithExpire(d, g, e, l), fresh)
<1> DEFINE k == d.groups[g].key
           n == WithExpire(d, g, e, l)
<1>1. /\ n.unused = d.unused
      /\ n.used = IF HasCard(d, g)
                  THEN [d.used EXCEPT ![k] = [group |-> g, expire |-> e]]
                  ELSE d.used
      /\ n.groups = [d.groups EXCEPT ![g] = Authorization(e, k, l)]
    BY DEF WithExpire, Sound, Data
<1>2. /\ n.groups[g] = Authorization(e, k, l)
      /\ \A h \in Groups \ {g} : n.groups[h] = d.groups[h]
    BY <1>1 DEF Sound, Data
<1>3. /\ HasCard(d, g) => k \in Cards /\ n.used[k].expire = e
      /\ \A x \in Cards \ {k} : n.used[x] = d.used[x]
    BY <1>1, KeyIsCard DEF Sound, Data, HasCard
<1>. HIDE DEF n
<1>4. InStep(d) => InStep(n)
  <2> SUFFICES ASSUME InStep(d), NEW h \in Groups, HasCard(n, h)
               PROVE  n.used[n.groups[h].key].expire = n.groups[h].expire
    BY DEF InStep
  <2>1. CASE h = g
    <3>1. k # NoCard /\ n.groups[h].key = k /\ n.groups[h].expire = e
        BY <1>2, <2>1 DEF HasCard, Authorization
    <3>. QED BY <1>3, <3>1, KeyIsCard
  <2>2. CASE h # g
    <3> DEFINE x == d.groups[h].key
    <3>1. n.groups[h] = d.groups[h] /\ x # NoCard
        BY <1>2, <2>2 DEF HasCard
    <3>2. HasCard(d, h) /\ x \in Cards /\ x # k
        BY <2>2, <3>1, KeyIsCard, KeyIsOwn
    <3>3. d.used[x].expire = d.groups[h].expire
        BY <3>2 DEF InStep
    <3>. QED BY <1>3, <3>1, <3>2, <3>3
  <2>. QED BY <2>1, <2>2
<1>5. PermanentKept(d, n)
  <2> SUFFICES ASSUME NEW h \in Groups, d.groups[h].listed,
                      d.groups[h].expire = Forever
               PROVE  n.groups[h].expire = Forever
    BY DEF PermanentKept, Listed
  <2>. QED BY <1>2 DEF Authorization
<1>6. CardsKept(d, n, fresh)
  <2>1. ASSUME NEW x \in Used(n)
        PROVE  n.used[x].group = d.used[x].group
    <3>1. CASE x = k /\ HasCard(d, g)
      <4>1. n.used = [d.used EXCEPT ![k] = [group |-> g, expire |-> e]] /\ k \in Cards
          BY <1>1, <1>3, <3>1
      <4>2. n.used[k].group = g
          BY <4>1 DEF Sound, Data
      <4>. QED BY <3>1, <4>2 DEF HasCard
    <3>2. CASE ~(x = k /\ HasCard(d, g))
      <4>1. x \in Cards
          BY DEF Used
      <4>2. CASE x = k
          BY <1>1, <3>2, <4>2
      <4>3. CASE x # k
          BY <1>3, <4>1, <4>3
      <4>. QED BY <4>2, <4>3
    <3>. QED BY <3>1, <3>2
  <2>. QED BY <1>1, <2>1 DEF CardsKept
<1>. QED BY <1>4, <1>5, <1>6 DEF Follows, n

\* A record that is made, or taken away.
LEMMA UnlistedFollows ==
    ASSUME NEW d, NEW m, Sound(d, m), NEW g \in Groups, NEW fresh,
           ~d.groups[g].listed
    PROVE  Follows(d, [d EXCEPT !.groups[g] = Authorization(Forever, NoCard, TRUE)],
                   fresh)
<1> DEFINE n == [d EXCEPT !.groups[g] = Authorization(Forever, NoCard, TRUE)]
<1>1. /\ n.unused = d.unused /\ n.used = d.used
      /\ n.groups[g] = Authorization(Forever, NoCard, TRUE)
      /\ \A h \in Groups \ {g} : n.groups[h] = d.groups[h]
    BY DEF Sound, Data
<1>. HIDE DEF n
<1>2. InStep(d) => InStep(n)
    BY <1>1 DEF InStep, HasCard, Authorization
<1>3. CardsKept(d, n, fresh)
    BY <1>1 DEF CardsKept, Used
<1>4. PermanentKept(d, n)
    BY <1>1 DEF PermanentKept, Listed
<1>. QED BY <1>2, <1>3, <1>4 DEF Follows, n

LEMMA WithoutFollows ==
    ASSUME NEW d, NEW m, Sound(d, m), NEW gs, NEW fresh
    PROVE  Follows(d, Without(d, gs), fresh)
<1> DEFINE n == Without(d, gs)
<1>1. /\ n.unused = d.unused /\ n.used = d.used
      /\ n.groups = [g \in Groups |-> IF g \in gs THEN Unlisted ELSE d.groups[g]]
    BY DEF Without, Sound, Data
<1>2. \A g \in Groups : n.groups[g] = IF g \in gs THEN Unlisted ELSE d.groups[g]
    BY <1>1
<1>. HIDE DEF n
<1>3. InStep(d) => InStep(n)
    BY <1>1, <1>2 DEF InStep, HasCard, Unlisted
<1>4. CardsKept(d, n, fresh)
    BY <1>1 DEF CardsKept, Used
<1>5. PermanentKept(d, n)
    BY <1>2 DEF PermanentKept, Listed, Unlisted
<1>. QED BY <1>3, <1>4, <1>5 DEF Follows, n

LEMMA UsedDeletedFollows ==
    ASSUME NEW d, NEW m, Sound(d, m), NEW u \in SUBSET d.unused, NEW fresh
    PROVE  Follows(d, [UsedDeleted(d) EXCEPT !.unused = u], fresh)
<1> DEFINE gs == {g \in Groups : d.groups[g].key \in Used(d)}
           w == Without(d, gs)
           n == [UsedDeleted(d) EXCEPT !.unused = u]
<1>1. /\ w.unused = d.unused
      /\ w.groups = [g \in Groups |-> IF g \in gs THEN Unlisted ELSE d.groups[g]]
      /\ w \in [unused : {w.unused}, used : {w.used}, groups : {w.groups}]
    BY DEF Without, Sound, Data
<1>2. /\ n.unused = u /\ n.used = [c \in Cards |-> NotUsed]
      /\ n.groups = w.groups
    BY <1>1 DEF UsedDeleted
<1>3. \A g \in Groups : n.groups[g] = IF g \in gs THEN Unlisted ELSE d.groups[g]
    BY <1>1, <1>2
<1>4. \A g \in Groups : n.groups[g].key = NoCard
  <2> TAKE g \in Groups
  <2>1. CASE g \in gs
    BY <1>3, <2>1 DEF Unlisted
  <2>2. CASE g \notin gs
    <3>1. d.groups[g].key \notin Used(d) /\ n.groups[g] = d.groups[g]
        BY <1>3, <2>2
    <3>2. d.groups[g].key # NoCard => d.groups[g].key \in Used(d)
        BY KeyIsCard, CardsAssumption DEF HasCard, Used
    <3>. QED BY <3>1, <3>2
  <2>. QED BY <2>1, <2>2
<1>. HIDE DEF n, gs, w
<1>5. InStep(n)
    BY <1>4 DEF InStep, HasCard
<1>6. PermanentKept(d, n)
    BY <1>3 DEF PermanentKept, Listed, Unlisted
<1>7. CardsKept(d, n, fresh)
    BY <1>2 DEF CardsKept, Used, NotUsed
<1>. QED BY <1>5, <1>6, <1>7 DEF Follows, n

-----------------------------------------------------------------------------
(* A step either leaves the file alone, or ends an operation: the file is  *)
(* then what it was or what the operation made of the copy it had.         *)

Fresh == minted' \ minted

Ends(p, n) ==
    /\ copy[p] # Idle
    /\ file' \in {file, n}
    /\ copy' = [copy EXCEPT ![p] = Idle]

Operates ==
    \E p \in Processes : \E n : Ends(p, n) /\ Follows(copy[p], n, Fresh)

\* What a pull restores need not follow; no card moves.
Restores ==
    /\ "pull" \in Commands
    /\ \E n : Ends("bot", n) /\ CardsKept(copy["bot"], n, Fresh)

Reads ==
    /\ file' = file
    /\ \A p \in Processes : copy'[p] \in {copy[p], Idle} \cup Readings

LEMMA BotIsProcess == "bot" \in Processes
BY DEF Processes

LEMMA EndsWith ==
    ASSUME NEW p \in Processes, copy[p] # Idle, NEW n, NEW stored,
           Follows(copy[p], n, Fresh), Save(p, n, stored) \/ Write(p, n, stored)
    PROVE  Operates
<1>1. Ends(p, n)
    BY DEF Ends, Save, Write
<1>. QED BY <1>1 DEF Operates

\* The operation changes nothing.
LEMMA EndsUnchanged ==
    ASSUME NEW p \in Processes, copy[p] # Idle, NEW n, Save(p, file, FALSE)
    PROVE  Operates
<1>1. Ends(p, copy[p])
    BY DEF Ends, Save
<1>. QED BY <1>1, ItselfFollows DEF Operates

LEMMA GenerateFollows ==
    ASSUME CardsInv, NEW p \in Processes, Generate(p)
    PROVE  Operates
<1> DEFINE d == copy[p]
<1>1. d # Idle /\ Sound(d, minted)
    BY CopyIsSound DEF Generate, In
<1>2. PICK c \in Cards \ minted, stored \in Outcomes :
        /\ Save(p, [d EXCEPT !.unused = d.unused \cup {c}], stored)
        /\ minted' = minted \cup {c}
    BY DEF Generate
<1>3. d.unused \cup {c} \subseteq d.unused \cup Fresh
    BY <1>2 DEF Fresh
<1>4. Follows(d, [d EXCEPT !.unused = d.unused \cup {c}], Fresh)
    BY <1>1, <1>3, UnusedFollows
<1>. QED BY <1>1, <1>2, <1>4, EndsWith

LEMMA RemoveUnusedFollows ==
    ASSUME CardsInv, RemoveUnused
    PROVE  Operates
<1> DEFINE d == copy["web"]
<1>1. "web" \in Processes /\ d # Idle /\ Sound(d, minted)
    BY CopyIsSound DEF RemoveUnused, In
<1>2. PICK c \in d.unused, stored \in Outcomes :
        Save("web", [d EXCEPT !.unused = d.unused \ {c}], stored)
    BY DEF RemoveUnused
<1>3. Follows(d, [d EXCEPT !.unused = d.unused \ {c}], Fresh)
    BY <1>1, UnusedFollows
<1>. QED BY <1>1, <1>2, <1>3, EndsWith

LEMMA ActivateFollows ==
    ASSUME CardsInv, NEW g \in Groups, Activate(g)
    PROVE  Operates
<1> DEFINE d == copy["bot"]
<1>1. d # Idle /\ Sound(d, minted)
    BY CopyIsSound, BotIsProcess DEF Activate, In
<1>2. PICK c \in Cards, stored \in Outcomes :
        /\ Activatable(d, g, c)
        /\ Write("bot", WithCard(d, g, c, Later(d.groups[g].expire, DaysOf[c])),
                 stored)
    BY DEF Activate
<1> DEFINE e == Later(d.groups[g].expire, DaysOf[c])
<1>3. c \in d.unused /\ c \notin Used(d) /\ d.groups[g].expire # Forever
    BY <1>2 DEF Activatable
<1>4. Write("bot", WithCard(d, g, c, e), stored)
    BY <1>2
<1>. HIDE DEF e
<1>5. Follows(d, WithCard(d, g, c, e), Fresh)
    BY <1>1, <1>3, WithCardFollows
<1>. QED BY <1>1, <1>4, <1>5, EndsWith, BotIsProcess

\* The two ways a grant ends.
LEMMA IssueFollows ==
    ASSUME CardsInv, copy["bot"] # Idle, NEW g \in Groups, NEW e, NEW stored,
           copy["bot"].groups[g].expire = Forever => e = Forever,
           Issue(g, e, stored)
    PROVE  Operates
<1> DEFINE d == copy["bot"]
<1>1. Sound(d, minted)
    BY CopyIsSound, BotIsProcess
<1>2. PICK c \in Cards \ minted :
        /\ Write("bot", WithCard(Replaced(d, g), g, c, e), stored)
        /\ minted' = minted \cup {c}
    BY DEF Issue
<1>3. c \notin Used(d) /\ c \in d.unused \cup Fresh
    BY <1>1, <1>2 DEF Sound, Fresh
<1>4. Follows(d, WithCard(Replaced(d, g), g, c, e), Fresh)
    BY <1>1, <1>3, WithCardFollows
<1>. QED BY <1>2, <1>4, EndsWith, BotIsProcess

LEMMA KeepFollows ==
    ASSUME CardsInv, copy["bot"] # Idle, NEW g \in Groups, NEW e, NEW l,
           NEW stored, copy["bot"].groups[g].expire = Forever => e = Forever,
           Keep(g, e, l, stored)
    PROVE  Operates
<1> DEFINE d == copy["bot"]
<1>1. Sound(d, minted)
    BY CopyIsSound, BotIsProcess
<1>2. Follows(d, WithExpire(d, g, e, l), Fresh)
    BY <1>1, WithExpireFollows
<1>3. Write("bot", WithExpire(d, g, e, l), stored)
    BY DEF Keep
<1>. QED BY <1>2, <1>3, EndsWith, BotIsProcess

LEMMA GrantFollows ==
    ASSUME CardsInv, NEW g \in Groups, Grant(g) \/ Reissue(g)
    PROVE  Operates
<1> DEFINE d == copy["bot"]
<1>1. d # Idle
    BY DEF Grant, Reissue, In
<1>2. CASE Grant(g)
  <2>1. PICK days \in Periods, stored \in Outcomes :
            LET expire == GrantedExpire(d, g, days)
            IN  IF HasValidCard(d, g)
                THEN Keep(g, expire, expire = Forever, stored)
                ELSE Issue(g, expire, stored)
    BY <1>2 DEF Grant
  <2> DEFINE e == GrantedExpire(d, g, days)
  <2>2. d.groups[g].expire = Forever => e = Forever
    BY DEF GrantedExpire
  <2>3. Keep(g, e, e = Forever, stored) \/ Issue(g, e, stored)
    BY <2>1
  <2>. HIDE DEF e
  <2>. QED BY <1>1, <2>2, <2>3, KeepFollows, IssueFollows
<1>3. CASE Reissue(g)
  <2>1. PICK stored \in Outcomes :
            \/ Keep(g, d.groups[g].expire, d.groups[g].lifelong, stored)
            \/ Issue(g, d.groups[g].expire, stored)
    BY <1>3 DEF Reissue
  <2>. QED BY <1>1, <2>1, KeepFollows, IssueFollows
<1>. QED BY <1>2, <1>3

LEMMA AddTimeFollows ==
    ASSUME CardsInv, NEW g \in Groups, AddTime(g)
    PROVE  Operates
<1> DEFINE d == copy["bot"]
<1>1. d # Idle /\ Sound(d, minted)
    BY CopyIsSound, BotIsProcess DEF AddTime, In
<1>2. PICK days \in Periods, stored \in Outcomes :
        LET r == d.groups[g]
            expire == GrantedExpire(d, g, days)
            made == IF r.listed
                    THEN WithExpire(d, g, expire, days = Forever)
                    ELSE [d EXCEPT
                            !.groups[g] = Authorization(Forever, NoCard, TRUE)]
        IN  IF r.listed /\ r.expire = Forever /\ days # Forever
            THEN Save("bot", file, FALSE)
            ELSE Save("bot", made, stored)
    BY DEF AddTime
<1> DEFINE expire == GrantedExpire(d, g, days)
           kept == WithExpire(d, g, expire, days = Forever)
           new == [d EXCEPT !.groups[g] = Authorization(Forever, NoCard, TRUE)]
<1>3. \/ Save("bot", file, FALSE)
      \/ Save("bot", kept, stored)
      \/ ~d.groups[g].listed /\ Save("bot", new, stored)
    BY <1>2
<1>4. Follows(d, kept, Fresh)
  <2>1. d.groups[g].expire = Forever => expire = Forever
    BY DEF GrantedExpire
  <2>. HIDE DEF expire
  <2>. QED BY <1>1, <2>1, WithExpireFollows
<1>5. ~d.groups[g].listed => Follows(d, new, Fresh)
    BY <1>1, UnlistedFollows
<1>. HIDE DEF kept, new
<1>. QED BY <1>1, <1>3, <1>4, <1>5, EndsWith, EndsUnchanged, BotIsProcess

LEMMA ReduceTimeFollows ==
    ASSUME CardsInv, NEW g \in Groups, ReduceTime(g)
    PROVE  Operates
<1> DEFINE d == copy["bot"]
<1>1. d # Idle /\ Sound(d, minted) /\ d.groups[g].expire # Forever
    BY CopyIsSound, BotIsProcess DEF ReduceTime, In
<1>2. PICK days \in Periods \ {Forever}, stored \in Outcomes :
        Save("bot", WithExpire(d, g, ReducedExpire(d, g, days), FALSE), stored)
    BY DEF ReduceTime
<1>3. Follows(d, WithExpire(d, g, ReducedExpire(d, g, days), FALSE), Fresh)
    BY <1>1, WithExpireFollows
<1>. QED BY <1>1, <1>2, <1>3, EndsWith, BotIsProcess

LEMMA PowerOffFollows ==
    ASSUME CardsInv, NEW g \in Groups, Deauthorize(g) \/ CleanUp(g)
    PROVE  Operates
<1> DEFINE d == copy["bot"]
<1>1. d # Idle /\ Sound(d, minted)
    BY CopyIsSound, BotIsProcess DEF Deauthorize, CleanUp, In
<1>2. \/ \E stored \in Outcomes : Save("bot", Without(d, {g}), stored)
      \/ Save("bot", file, FALSE)
    BY DEF Deauthorize, CleanUp, PowerOff
<1>3. Follows(d, Without(d, {g}), Fresh)
    BY <1>1, WithoutFollows
<1>. QED BY <1>1, <1>2, <1>3, EndsWith, EndsUnchanged, BotIsProcess

LEMMA DeleteFollows ==
    ASSUME CardsInv, DeleteUsed \/ DeleteAll
    PROVE  Operates
<1> DEFINE d == copy["bot"]
<1>1. d # Idle /\ Sound(d, minted)
    BY CopyIsSound, BotIsProcess DEF DeleteUsed, DeleteAll, In
<1>2. PICK stored \in Outcomes, u \in {d.unused, {}} :
        Save("bot", [UsedDeleted(d) EXCEPT !.unused = u], stored)
  <2>1. UsedDeleted(d) = [UsedDeleted(d) EXCEPT !.unused = d.unused]
    <3>1. UsedDeleted(d) \in [unused : {d.unused},
                              used : {[c \in Cards |-> NotUsed]},
                              groups : {UsedDeleted(d).groups}]
        BY <1>1 DEF UsedDeleted, Without, Sound, Data
    <3>. QED BY <3>1
  <2>. QED BY <2>1 DEF DeleteUsed, DeleteAll
<1>3. Follows(d, [UsedDeleted(d) EXCEPT !.unused = u], Fresh)
    BY <1>1, UsedDeletedFollows
<1>. QED BY <1>1, <1>2, <1>3, EndsWith, BotIsProcess

\* A pull changes the record of a group under the card kept locally.
LEMMA RestoreFollows ==
    ASSUME CardsInv, Restore
    PROVE  Restores
<1> DEFINE d == copy["bot"]
           n == Restored(d, answer.group, answer.auth)
<1>1. d # Idle /\ Sound(d, minted) /\ "pull" \in Commands
    BY CopyIsSound, BotIsProcess DEF Restore, In, Enabled
<1>2. Ends("bot", n)
    BY <1>1 DEF Restore, Save, Ends
<1>3. n.unused = d.unused /\ n.used = d.used
  <2>1. n = Without(d, {answer.group}) \/ \E r : n = [d EXCEPT !.groups[answer.group] = r]
    BY DEF Restored
  <2>. HIDE DEF n
  <2>. QED BY <1>1, <2>1 DEF Without, Sound, Data
<1>. HIDE DEF n
<1>. QED BY <1>1, <1>2, <1>3 DEF Restores, CardsKept, Used

\* What does not end an operation that writes.
LEMMA ReadsLeave ==
    ASSUME CardsInv,
           \/ \E p \in Processes : Load(p) \/ Decline(p)
           \/ \E g \in Groups : RequestPull(g)
           \/ Synchronize
           \/ Retoken
           \/ Tick
           \/ UNCHANGED cardVars
    PROVE  Reads
<1>1. CASE \E p \in Processes : Load(p) \/ Decline(p)
    BY <1>1 DEF CardsInv, TypeOK, Load, Decline, Reads
<1>2. CASE (\E g \in Groups : RequestPull(g)) \/ Synchronize
    BY <1>2 DEF RequestPull, Synchronize, Reads
<1>3. CASE Retoken \/ Tick \/ UNCHANGED cardVars
    BY <1>3 DEF Retoken, Tick, cardVars, Reads
<1>. QED BY <1>1, <1>2, <1>3

LEMMA StepKinds ==
    ASSUME CardsInv, [CardsNext]_cardVars
    PROVE  Operates \/ Restores \/ Reads
<1>1. CASE \E p \in Processes : Generate(p)
    BY <1>1, GenerateFollows
<1>2. CASE \E g \in Groups : \/ Activate(g)
                             \/ Grant(g)
                             \/ Reissue(g)
                             \/ AddTime(g)
                             \/ ReduceTime(g)
    BY <1>2, ActivateFollows, GrantFollows, AddTimeFollows, ReduceTimeFollows
<1>3. CASE \E g \in Groups : Deauthorize(g) \/ CleanUp(g)
    BY <1>3, PowerOffFollows
<1>4. CASE DeleteUsed \/ DeleteAll \/ RemoveUnused
    BY <1>4, DeleteFollows, RemoveUnusedFollows
<1>5. CASE Restore
    BY <1>5, RestoreFollows
<1>6. CASE \/ \E p \in Processes : Load(p) \/ Decline(p)
           \/ \E g \in Groups : RequestPull(g)
           \/ Synchronize
           \/ Retoken
           \/ Tick
           \/ UNCHANGED cardVars
    BY <1>6, ReadsLeave
<1>. QED BY <1>1, <1>2, <1>3, <1>4, <1>5, <1>6 DEF CardsNext

-----------------------------------------------------------------------------
(* Without pulls every file, and every copy of one, shows a group's expiry *)
(* with its card: the operations keep it so whatever copy they work on.    *)

NoPulls == "pull" \notin Commands

InStepInv ==
    /\ CardsInv
    /\ InStep(file)
    /\ \A p \in Processes : copy[p] # Idle => InStep(copy[p])

LEMMA EmptyInStep == InStep(Empty)
BY DEF InStep, Empty, HasCard, Unlisted

LEMMA InStepInit ==
    ASSUME CardsInit
    PROVE  InStepInv
<1>1. CardsInv
    BY InitKeeps
<1>2. \A p \in Processes : copy[p] = Idle
    BY DEF CardsInit
<1>3. \A g \in Groups : file.groups[g].key = NoCard
    BY DEF CardsInit, Empty, Authorization, Unlisted
<1>. QED BY <1>1, <1>2, <1>3 DEF InStepInv, InStep, HasCard

LEMMA InStepStep ==
    ASSUME NoPulls, InStepInv, [CardsNext]_cardVars
    PROVE  InStepInv'
<1>1. CardsInv'
    BY CardsStepKeeps DEF InStepInv
<1>2. copy \in [Processes -> Data \cup {Idle}]
    BY DEF InStepInv, CardsInv, TypeOK
<1>3. CASE Operates
  <2>1. PICK p \in Processes : \E n : Ends(p, n) /\ Follows(copy[p], n, Fresh)
    BY <1>3 DEF Operates
  <2>2. PICK n : Ends(p, n) /\ Follows(copy[p], n, Fresh)
    BY <2>1
  <2>3. InStep(n) /\ file' \in {file, n} /\ copy' = [copy EXCEPT ![p] = Idle]
    BY <2>2 DEF InStepInv, Ends, Follows
  <2>4. InStep(file')
    BY <2>3 DEF InStepInv
  <2>5. \A q \in Processes : copy'[q] # Idle => InStep(copy'[q])
    BY <1>2, <2>3 DEF InStepInv
  <2>. QED BY <1>1, <2>4, <2>5 DEF InStepInv, InStep, HasCard
<1>4. CASE Reads
  <2>1. InStep(file') /\ \A q \in Processes : copy'[q] # Idle => InStep(copy'[q])
    BY <1>4, EmptyInStep DEF Reads, Readings, InStepInv
  <2>. QED BY <1>1, <2>1 DEF InStepInv, InStep, HasCard
<1>5. ~Restores
    BY DEF Restores, NoPulls
<1>. QED BY <1>3, <1>4, <1>5, StepKinds DEF InStepInv

\* Without pulls, the expiry shown with a group's current card is the group's
\* own, whatever the owner and the customers do to it, although a portal in
\* local mode writes old copies back and reads and writes fail.
THEOREM CardViewAlwaysInStep ==
    ASSUME NoPulls
    PROVE  CardsSpec => []CardViewInStep
<1>1. CardsInit => InStepInv
    BY InStepInit
<1>2. InStepInv /\ [CardsNext]_cardVars => InStepInv'
    BY InStepStep
<1>3. InStepInv => CardViewInStep
    BY DEF InStepInv, InStep, CardViewInStep
<1>. QED BY <1>1, <1>2, <1>3, PTL DEF CardsSpec

-----------------------------------------------------------------------------
(* One process: an operation works on the file itself or on the empty      *)
(* default, so that what it keeps of its copy it keeps of the file.        *)

OneProcess == ~LocalPortal

OneProcessInv == CardsInv /\ copy["bot"] \in {Idle, file, Empty}

LEMMA OneProcessInit ==
    ASSUME CardsInit
    PROVE  OneProcessInv
BY InitKeeps, BotIsProcess DEF CardsInit, OneProcessInv

\* Nothing of the empty default, hence nothing but what is new, or the same of
\* the file itself.
LEMMA OneProcessKept ==
    ASSUME OneProcess, OneProcessInv, [CardsNext]_cardVars
    PROVE  CardsKept(file, file', Fresh) /\ copy'["bot"] \in {Idle, file', Empty}
<1>1. CardsKept(file, file, Fresh)
    BY DEF CardsKept
<1>2. ASSUME NEW n, Ends("bot", n), CardsKept(copy["bot"], n, Fresh)
      PROVE  CardsKept(file, file', Fresh) /\ copy'["bot"] \in {Idle, file', Empty}
  <2>1. CASE copy["bot"] = file
    BY <1>1, <1>2, <2>1, BotIsProcess
       DEF Ends, OneProcessInv, CardsInv, TypeOK
  <2>2. CASE copy["bot"] = Empty
    <3>1. Empty.unused = {} /\ \A c \in Used(n) : Empty.used[c].group = NoGroup
        BY DEF Empty, NotUsed, Used
    <3>2. n.unused \subseteq Fresh /\ Used(n) \subseteq Fresh
        BY <1>2, <2>2, <3>1 DEF CardsKept, Used
    <3>3. CardsKept(file, n, Fresh)
        BY <3>2 DEF CardsKept
    <3>. QED BY <1>1, <1>2, <3>3, BotIsProcess
             DEF Ends, OneProcessInv, CardsInv, TypeOK
  <2>. QED BY <1>2, <2>1, <2>2 DEF Ends, OneProcessInv
<1>3. Processes = {"bot"}
    BY DEF OneProcess, Processes
<1>4. CASE Operates
    BY <1>2, <1>3, <1>4 DEF Operates, Follows
<1>5. CASE Restores
    BY <1>2, <1>5 DEF Restores
<1>6. CASE Reads
    BY <1>1, <1>3, <1>6 DEF Reads, Readings, OneProcessInv
<1>. QED BY <1>4, <1>5, <1>6, StepKinds DEF OneProcessInv

LEMMA OneProcessStep ==
    ASSUME OneProcess, OneProcessInv, [CardsNext]_cardVars
    PROVE  OneProcessInv'
<1>1. CardsInv'
    BY CardsStepKeeps DEF OneProcessInv
<1>2. copy'["bot"] \in {Idle, file', Empty}
    BY OneProcessKept
<1>. QED BY <1>1, <1>2 DEF OneProcessInv, Empty, Idle

\* The bot alone: an idle process, or one that holds the file as it is or what
\* an unreadable file is taken for.
THEOREM OneProcessInvariance ==
    ASSUME OneProcess
    PROVE  CardsSpec => []OneProcessInv
<1>1. CardsInit => OneProcessInv
    BY OneProcessInit
<1>2. OneProcessInv /\ [CardsNext]_cardVars => OneProcessInv'
    BY OneProcessStep
<1>. QED BY <1>1, <1>2, PTL DEF CardsSpec

-----------------------------------------------------------------------------
(* The life of a card.                                                     *)

\* Where a card is, in terms of the file.
LifeFacts(c) ==
    /\ c \notin minted => StateOf(c) = "new" /\ file.used[c].group = NoGroup
    /\ c \in minted => StateOf(c) # "new"
    /\ StateOf(c) = "unused" <=> c \in file.unused
    /\ StateOf(c) = "unused" => file.used[c].group = NoGroup
    /\ StateOf(c) = "used" <=> file.used[c].group # NoGroup
    /\ StateOf(c) \in {"new", "unused", "used", "gone"}
    /\ file.used[c].group \in Groups \cup {NoGroup}

LEMMA StateFacts == CardsInv => \A c \in Cards : LifeFacts(c)
<1> SUFFICES ASSUME CardsInv, NEW c \in Cards
             PROVE  LifeFacts(c)
    OBVIOUS
<1>1. file.unused \cup Used(file) \subseteq minted
      /\ file.unused \cap Used(file) = {} /\ file \in Data
    BY DEF CardsInv, Sound, Consistent
<1>2. c \in Used(file) <=> file.used[c].group # NoGroup
    BY DEF Used
<1>3. file.used[c].group \in Groups \cup {NoGroup}
    BY <1>1 DEF Data
<1>. QED BY <1>1, <1>2, <1>3 DEF StateOf, LifeFacts

LEMMA StateFactsNext == CardsInv' => (\A c \in Cards : LifeFacts(c))'
BY StateFacts, PTL

\* A step of the bot moves every card along its life, or leaves it.
LEMMA CardMoves ==
    ASSUME CardsInv, CardsInv', CardsKept(file, file', Fresh),
           minted \subseteq minted', NEW c \in Cards
    PROVE  Life(c)!LifeNext \/ UNCHANGED Life(c)!lifeVars
<1> DEFINE old == file.used[c].group
           new == file'.used[c].group
<1>1. /\ c \notin minted => StateOf(c) = "new" /\ old = NoGroup
      /\ c \in minted => StateOf(c) # "new"
      /\ StateOf(c) = "unused" <=> c \in file.unused
      /\ StateOf(c) = "unused" => old = NoGroup
      /\ StateOf(c) = "used" <=> old # NoGroup
      /\ StateOf(c) \in {"new", "unused", "used", "gone"}
    BY StateFacts DEF LifeFacts
<1>2. /\ c \notin minted' => StateOf(c)' = "new" /\ new = NoGroup
      /\ c \in minted' => StateOf(c)' # "new"
      /\ StateOf(c)' = "unused" <=> c \in file'.unused
      /\ StateOf(c)' = "unused" => new = NoGroup
      /\ StateOf(c)' = "used" <=> new # NoGroup
      /\ StateOf(c)' \in {"new", "unused", "used", "gone"}
      /\ new \in Groups \cup {NoGroup}
    BY StateFactsNext DEF LifeFacts
<1>3. /\ c \in file'.unused => c \in file.unused \/ c \notin minted
      /\ new # NoGroup => c \in file.unused \/ c \notin minted \/ new = old
    BY DEF CardsKept, Fresh, Used
<1> HIDE DEF old, new
<1>4. CASE StateOf(c)' = "new"
    BY <1>1, <1>2, <1>4 DEF Life!lifeVars, old, new
<1>5. CASE StateOf(c)' = "unused"
  <2>1. CASE c \in file.unused
    BY <1>1, <1>2, <1>5, <2>1 DEF Life!lifeVars, old, new
  <2>2. CASE c \notin minted
    BY <1>1, <1>2, <1>5, <2>2 DEF Life!LifeNext, Life!Stock, old, new
  <2>. QED BY <1>2, <1>3, <1>5, <2>1, <2>2
<1>6. CASE StateOf(c)' = "used"
  <2>1. CASE c \in file.unused \/ c \notin minted
    <3>1. StateOf(c) \in {"new", "unused"} /\ new \in Groups
        BY <1>1, <1>2, <1>6, <2>1
    <3>2. Life(c)!Use(new)
        BY <1>6, <3>1 DEF Life!Use, new
    <3>. QED BY <3>1, <3>2 DEF Life!LifeNext
  <2>2. CASE new = old
    BY <1>1, <1>2, <1>6, <2>2 DEF Life!lifeVars, old, new
  <2>. QED BY <1>2, <1>3, <1>6, <2>1, <2>2
<1>7. CASE StateOf(c)' = "gone"
  <2>1. CASE StateOf(c) = "gone"
    BY <1>1, <1>2, <1>7, <2>1 DEF Life!lifeVars, old, new
  <2>2. CASE StateOf(c) # "gone"
    BY <1>2, <1>7, <2>2 DEF Life!LifeNext, Life!Discard, new
  <2>. QED BY <2>1, <2>2
<1>. QED BY <1>2, <1>4, <1>5, <1>6, <1>7

\* The generated cards stay generated.
LEMMA MintedGrows ==
    ASSUME [CardsNext]_cardVars
    PROVE  minted \subseteq minted'
<1>1. CASE \E p \in Processes : Load(p) \/ Decline(p) \/ Generate(p)
    BY <1>1 DEF Load, Decline, Generate
<1>2. CASE \E g \in Groups : Grant(g)
  <2>1. PICK g \in Groups, e \in Expires, stored \in Outcomes :
            Keep(g, e, e = Forever, stored) \/ Issue(g, e, stored)
    BY <1>2 DEF Grant
  <2>. QED BY <2>1 DEF Keep, Issue
<1>3. CASE \E g \in Groups : Reissue(g)
  <2>. DEFINE r(g) == copy["bot"].groups[g]
  <2>1. PICK g \in Groups, stored \in Outcomes :
            \/ Keep(g, r(g).expire, r(g).lifelong, stored)
            \/ Issue(g, r(g).expire, stored)
    BY <1>3 DEF Reissue
  <2>. QED BY <2>1 DEF Keep, Issue
<1>4. CASE \E g \in Groups : \/ Activate(g)
                             \/ AddTime(g)
                             \/ ReduceTime(g)
                             \/ Deauthorize(g)
                             \/ CleanUp(g)
                             \/ RequestPull(g)
    BY <1>4 DEF Activate, AddTime, ReduceTime, Deauthorize, CleanUp, RequestPull
<1>5. CASE \/ RemoveUnused \/ DeleteUsed \/ DeleteAll \/ Synchronize \/ Restore
           \/ Retoken \/ Tick \/ UNCHANGED cardVars
    BY <1>5 DEF RemoveUnused, DeleteUsed, DeleteAll, Synchronize, Restore,
       Retoken, Tick, cardVars
<1>. QED BY <1>1, <1>2, <1>3, <1>4, <1>5 DEF CardsNext

\* With one process every card has one life, whatever fails to be read or
\* written and whatever is pulled: it is activated by one group at most and
\* never again, and nothing that is gone comes back.
THEOREM CardLifeImplemented ==
    ASSUME OneProcess
    PROVE  CardsSpec => ImplementsCardLife
<1>1. CardsInit => \A c \in Cards : Life(c)!LifeInit
  <2> SUFFICES ASSUME CardsInit, NEW c \in Cards
               PROVE  Life(c)!LifeInit
    OBVIOUS
  <2>1. minted = {} /\ CardsInv
    BY InitKeeps DEF CardsInit
  <2>. QED BY <2>1, StateFacts DEF LifeFacts, Life!LifeInit
<1>2. OneProcessInv /\ OneProcessInv' /\ [CardsNext]_cardVars =>
        [\A c \in Cards :
            Life(c)!LifeNext \/ UNCHANGED Life(c)!lifeVars]_cardVars
  <2> SUFFICES ASSUME OneProcessInv, OneProcessInv', [CardsNext]_cardVars,
                      NEW c \in Cards
               PROVE  Life(c)!LifeNext \/ UNCHANGED Life(c)!lifeVars
    OBVIOUS
  <2>1. CardsInv /\ CardsInv'
    BY DEF OneProcessInv
  <2>. QED BY <2>1, OneProcessKept, MintedGrows, CardMoves
<1>. QED BY <1>1, <1>2, OneProcessInvariance, PTL DEF CardsSpec, ImplementsCardLife

-----------------------------------------------------------------------------
(* The bot alone: one process whose reads succeed, and no pulls.           *)

Alone == ~LocalPortal /\ ~ReadFails /\ NoPulls

AloneInv == CardsInv /\ copy["bot"] \in {Idle, file}

LEMMA AloneKeeps ==
    ASSUME Alone, AloneInv, [CardsNext]_cardVars
    PROVE  PermanentKept(file, file') /\ copy'["bot"] \in {Idle, file'}
<1>1. Processes = {"bot"} /\ Readings = {file}
    BY DEF Alone, Processes, Readings
<1>2. PermanentKept(file, file)
    BY DEF PermanentKept
<1>3. CASE Operates
  <2>1. PICK n : Ends("bot", n) /\ Follows(copy["bot"], n, Fresh)
    BY <1>1, <1>3 DEF Operates
  <2>2. copy["bot"] = file /\ file' \in {file, n}
    BY <2>1 DEF AloneInv, Ends
  <2>3. copy'["bot"] = Idle
    BY <2>1, BotIsProcess DEF Ends, AloneInv, CardsInv, TypeOK
  <2>. QED BY <1>2, <2>1, <2>2, <2>3 DEF Follows
<1>4. CASE Reads
    BY <1>1, <1>2, <1>4 DEF Reads, AloneInv
<1>5. ~Restores
    BY DEF Restores, Alone, NoPulls
<1>. QED BY <1>3, <1>4, <1>5, StepKinds DEF AloneInv

\* With one process whose reads succeed, no command turns a permanent
\* authorization into a timed one: a card, a grant, added and reduced time all
\* leave it permanent.
THEOREM PermanentStays ==
    ASSUME Alone
    PROVE  CardsSpec => PermanentNeverDowngraded
<1>1. CardsInit => AloneInv
    BY InitKeeps, BotIsProcess DEF CardsInit, AloneInv
<1>2. AloneInv /\ [CardsNext]_cardVars => AloneInv'
  <2> SUFFICES ASSUME AloneInv, [CardsNext]_cardVars
               PROVE  AloneInv'
    OBVIOUS
  <2>1. CardsInv' /\ copy'["bot"] \in {Idle, file'}
    BY CardsStepKeeps, AloneKeeps DEF AloneInv
  <2>. QED BY <2>1 DEF AloneInv, Idle
<1>3. AloneInv /\ [CardsNext]_cardVars =>
        [\A g \in Listed(file) \cap Listed(file)' :
            file.groups[g].expire = Forever =>
                file'.groups[g].expire = Forever]_cardVars
    BY AloneKeeps DEF PermanentKept, Listed
<1>. QED BY <1>1, <1>2, <1>3, PTL DEF CardsSpec, PermanentNeverDowngraded

-----------------------------------------------------------------------------
(* What the owner is shown, with one process or two.                       *)

\* The file holds what was shown.
Stored == /\ file'.used[told'.card].group = told'.group
          /\ file'.groups[told'.group].key = told'.card
          /\ file'.groups[told'.group].expire = told'.expire

LEMMA IssueStored ==
    ASSUME CardsInv, NEW g \in Groups, NEW e, NEW stored,
           "bot" \in Processes, copy["bot"] # Idle,
           Issue(g, e, stored), told' # Nothing
    PROVE  Stored
<1> DEFINE d == copy["bot"]
           r == Replaced(d, g)
<1>1. Sound(d, minted)
    BY CopyIsSound
<1>2. PICK c \in Cards \ minted :
        /\ Write("bot", WithCard(r, g, c, e), stored)
        /\ IF stored THEN Tell(g, c, e) ELSE told' = Nothing
    BY DEF Issue
<1>3. c # NoCard
    BY CardsAssumption
<1>4. told' = [group |-> g, card |-> c, expire |-> e]
      /\ file' = WithCard(r, g, c, e)
    BY <1>2, <1>3 DEF Tell, Write
<1>5. r \in Data
    BY <1>1, ReplacedSound
<1>. HIDE DEF r
<1>6. /\ file'.used = [r.used EXCEPT ![c] = [group |-> g, expire |-> e]]
      /\ file'.groups = [r.groups EXCEPT ![g] = Authorization(e, c, e = Forever)]
    BY <1>4 DEF WithCard
<1>7. file'.used[c].group = g /\ file'.groups[g] = Authorization(e, c, e = Forever)
    BY <1>5, <1>6 DEF Data
<1>. QED BY <1>4, <1>7 DEF Stored, Authorization

LEMMA KeepStored ==
    ASSUME CardsInv, NEW g \in Groups, NEW e, NEW l, NEW stored,
           "bot" \in Processes, copy["bot"] # Idle,
           Keep(g, e, l, stored), told' # Nothing
    PROVE  Stored
<1> DEFINE d == copy["bot"]
           k == d.groups[g].key
<1>1. Sound(d, minted)
    BY CopyIsSound
<1>2. /\ Write("bot", WithExpire(d, g, e, l), stored)
      /\ IF stored THEN Tell(g, k, e) ELSE told' = Nothing
    BY DEF Keep
<1>3. /\ told' = [group |-> g, card |-> k, expire |-> e] /\ k # NoCard
      /\ file' = WithExpire(d, g, e, l)
    BY <1>2 DEF Tell, Write
<1>4. HasCard(d, g) /\ k \in Cards
    BY <1>1, <1>3, KeyIsCard
<1>5. /\ file'.used = [d.used EXCEPT ![k] = [group |-> g, expire |-> e]]
      /\ file'.groups = [d.groups EXCEPT ![g] = Authorization(e, k, l)]
    BY <1>1, <1>3, <1>4 DEF WithExpire, Sound, Data
<1>6. file'.used[k].group = g /\ file'.groups[g] = Authorization(e, k, l)
    BY <1>1, <1>4, <1>5 DEF Sound, Data
<1>. QED BY <1>3, <1>6 DEF Stored, Authorization

LEMMA AddTimeStored ==
    ASSUME CardsInv, NEW g \in Groups, AddTime(g), told' # Nothing
    PROVE  Stored
<1>1. Sound(file, minted)'
    BY AddTimeKeeps DEF CardsInv
<1>2. Tell(g, file'.groups[g].key, file'.groups[g].expire)
    BY DEF AddTime
<1>3. /\ file'.groups[g].key # NoCard
      /\ told' = [group |-> g, card |-> file'.groups[g].key,
                  expire |-> file'.groups[g].expire]
    BY <1>2 DEF Tell
<1>4. file'.used[file'.groups[g].key].group = g
    BY <1>1, <1>3 DEF Sound, Consistent, HasCard
<1>. QED BY <1>3, <1>4 DEF Stored

LEMMA ToldStored ==
    ASSUME CardsInv, CardsNext, told' \notin {Nothing, told}
    PROVE  Stored
<1>1. PICK g \in Groups : Grant(g) \/ Reissue(g) \/ AddTime(g)
  <2>1. ~Tick /\ ~Retoken /\ ~Restore /\ ~Synchronize /\ ~DeleteUsed
        /\ ~DeleteAll /\ ~RemoveUnused
    BY DEF Tick, Retoken, Restore, Synchronize, DeleteUsed, DeleteAll,
       RemoveUnused
  <2>2. \A p \in Processes : ~Load(p) /\ ~Decline(p) /\ ~Generate(p)
    BY DEF Load, Decline, Generate
  <2>3. \A g \in Groups : ~Activate(g) /\ ~ReduceTime(g) /\ ~Deauthorize(g)
                          /\ ~CleanUp(g) /\ ~RequestPull(g)
    BY DEF Activate, ReduceTime, Deauthorize, CleanUp, RequestPull
  <2>. QED BY <2>1, <2>2, <2>3 DEF CardsNext
<1>2. CASE Grant(g) \/ Reissue(g)
  <2>1. "bot" \in Processes /\ copy["bot"] # Idle
    BY <1>2 DEF Grant, Reissue, In
  <2>2. \E e, l, stored : Keep(g, e, l, stored) \/ Issue(g, e, stored)
    BY <1>2 DEF Grant, Reissue
  <2>. QED BY <2>1, <2>2, KeepStored, IssueStored
<1>3. CASE AddTime(g)
    BY <1>3, AddTimeStored
<1>. QED BY <1>1, <1>2, <1>3

\* The owner is never shown a card or an expiry that the file does not hold,
\* even when reads and writes fail and another process writes in between.
THEOREM ShownIsStored == CardsSpec => ShownCardIsStored
<1>1. CardsInv /\ [CardsNext]_cardVars =>
        [told' \notin {Nothing, told} =>
            /\ file'.used[told'.card].group = told'.group
            /\ file'.groups[told'.group].key = told'.card
            /\ file'.groups[told'.group].expire = told'.expire]_cardVars
    BY ToldStored DEF Stored
<1>. QED BY <1>1, CardsInvariance, PTL DEF CardsSpec, ShownCardIsStored

=============================================================================
