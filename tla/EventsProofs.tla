---------------------------- MODULE EventsProofs ----------------------------
(***************************************************************************)
(* Events, for any number of rows, titles, slugs, requests and files.      *)
(*                                                                         *)
(* Types hold however requests overlap.  The rest is about requests that   *)
(* are served one at a time, where it is not inductive: between the        *)
(* transaction of a request and its clean-up a replaced file still lies in *)
(* storage and a cached payload is stale.  The invariant therefore says    *)
(* what the request in flight still owes (Promise, Held), and that no file *)
(* belongs to two events, so that what one request deletes is no cover of  *)
(* another event.  The deletion of the organization is the one request     *)
(* that removes files first; what it removed is in cleaned.                *)
(***************************************************************************)
EXTENDS Events, WellFoundedInduction, FiniteSetTheorems, TLAPS

(***************************************************************************)
(* Invariant                                                               *)
(***************************************************************************)
\* What a request does after its transaction.
Item == [k: {"purge", "drop"}, files: SUBSET Nat]
Dropped(todo) == UNION {todo[i].files : i \in 1..Len(todo)}
HasPurge(todo) == \E i \in 1..Len(todo) : todo[i].k = "purge"

AssetsOf(e) == CoverOf(e) \cup Images(e)

OpTyped(x) ==
    /\ x.do \in {"idle", "create", "save", "images", "delete", "deleteOrg", "after", "fill"}
    /\ x.do \in {"create", "save", "images", "delete", "after", "fill"} => x.id \in Ids
    /\ x.do = "create" => /\ DOMAIN x = {"do", "id", "title", "auto", "tries", "slug"}
                          /\ x.title \in Titles /\ x.slug \in Slugs
    /\ x.do \in {"save", "fill"} => x.row \in Row /\ x.row.cover <= uploads /\ x.row.state = "live"
    /\ x.do \in {"save", "images"} => x.imgs \subseteq 1..uploads /\ x.new \subseteq 1..uploads
    /\ x.do \in {"save", "delete", "deleteOrg", "after"} => x.todo \in Seq(Item)
    /\ x.do = "after" => DOMAIN x = {"do", "id", "todo"}
    /\ x.do = "deleteOrg" => DOMAIN x = {"do", "todo"}

Typed ==
    /\ TypeOK
    /\ DOMAIN op = Workers /\ DOMAIN cache = Ids
    /\ \A w \in Workers : OpTyped(op[w])
    /\ \A e \in Ids : rows[e].state = "none" => rows[e].status = "DRAFT"

\* Where a request served alone stands: the rows are as it found them.
Resolved(x) ==
    /\ x.do \in {"create", "save", "images", "delete", "deleteOrg"} => org
    /\ x.do = "create" => rows[x.id].state = "none"
    /\ x.do \in {"save", "images", "delete", "fill"} => Live(x.id)
    /\ x.do = "fill" => Published(x.id) /\ x.row = rows[x.id]
    /\ x.do = "save" => (rows[x.id].status = "CANCELLED" => x.row.status = "CANCELLED")
    /\ x.do \in {"save", "delete"} => HasPurge(x.todo)

\* New files are nobody's yet; the cover it will write is in storage and is
\* not among the files it will drop, and those are the event's own.
Uploaded(x) ==
    x.do \in {"save", "images"} =>
        /\ x.new \subseteq files /\ x.imgs \subseteq x.new
        /\ \A e \in Ids : x.new \cap AssetsOf(e) = {}

Promise(x) ==
    /\ Resolved(x) /\ Uploaded(x)
    /\ x.do = "save" =>
          /\ x.row.cover \in files \cup cleaned \cup {NoFile} /\ x.row.cover \in AssetsOf(x.id) \cup x.new \cup {NoFile}
          /\ x.row.cover \notin Dropped(x.todo) /\ Dropped(x.todo) \subseteq CoverOf(x.id)
          /\ CoverOf(x.id) \subseteq {x.row.cover} \cup Dropped(x.todo)
          /\ x.new \subseteq {x.row.cover} \cup x.imgs
    /\ x.do = "images" => x.new \subseteq x.imgs
    /\ x.do = "delete" => Dropped(x.todo) = AssetsOf(x.id)
    /\ x.do = "deleteOrg" /\ faults = 0 =>
          \A e \in Ids : Live(e) => AssetsOf(e) \cap files \subseteq Dropped(x.todo)
    /\ x.do = "after" /\ org => \A e \in Ids : Live(e) => CoverOf(e) \cap Dropped(x.todo) = {}

\* Files that the request will drop, or has not attached yet.
Held(x) ==
    IF x.do = "after" THEN Dropped(x.todo)
    ELSE IF x.do \in {"save", "images"} THEN x.new ELSE {}

OneAtATime == serial => \A v, w \in Workers : ~Idle(v) /\ ~Idle(w) => v = w
Owned == serial => \A d, e \in Ids : d # e => AssetsOf(d) \cap AssetsOf(e) = {}
Promises == serial => \A w \in Workers : Promise(op[w])

Attached(f) == org /\ \E e \in Ids : Live(e) /\ f \in AssetsOf(e)
NoneLost ==
    (serial /\ faults = 0) =>
        \A f \in files : Attached(f) \/ \E w \in Workers : f \in Held(op[w])

PurgeComes ==
    (serial /\ faults = 0) =>
        \A e \in Ids : Stale(e) =>
            \E w \in Workers : Doing(w, "after") /\ op[w].id = e /\ HasPurge(op[w].todo)

EventsInv == Typed /\ OneAtATime /\ Owned /\ Promises /\ CoverStored /\ NoneLost /\ PurgeComes

(***************************************************************************)
(* Slugs and clean-ups                                                     *)
(***************************************************************************)
Below == OpToRel(<, Nat)

\* A set of numbers has a least one.
LEMMA Smallest ==
    ASSUME NEW S \in SUBSET Nat, S # {}
    PROVE  \E n \in S : \A k \in S : n <= k
<1>1. IsWellFoundedOn(Below, Nat)
  BY NatLessThanWellFounded DEF Below
<1>2. PICK n \in S : \A k \in S : ~ (<<k, n>> \in Below)
  BY <1>1, WFMin
<1>3. \A m, k \in Nat : k < m => <<k, m>> \in Below
  BY DEF Below, OpToRel
<1>4. ASSUME NEW k \in S PROVE n <= k
  <2>1. n \in Nat /\ k \in Nat
    BY <1>2
  <2>2. ~(k < n)
    BY <1>2, <1>3, <2>1
  <2>3. QED
    BY <2>1, <2>2
<1>5. QED
  BY <1>4

\* As long as one is free, a derived slug is one of the candidates.
LEMMA SlugIsFree ==
    ASSUME Slugs \ LiveSlugs # {}
    PROVE  UniqueSlug \in Slugs
<1>1. Slugs \ LiveSlugs \in SUBSET Nat
  <2>1. Cardinality(Slugs) \in Nat
    BY EventsAssumption, FS_CardinalityType
  <2>2. QED
    BY <2>1, EventsAssumption
<1>2. \E n \in Slugs \ LiveSlugs : \A k \in Slugs \ LiveSlugs : n <= k
  BY <1>1, Smallest
<1>3. QED
  BY <1>2 DEF UniqueSlug

LEMMA SlugsStart == 1 \in Slugs
<1>1. Cardinality(Slugs) \in Nat
  BY EventsAssumption, FS_CardinalityType
<1>2. QED
  BY <1>1, EventsAssumption

\* The clean-ups that handlers ask for.
LEMMA CleanUps ==
    /\ \A fs \in SUBSET Nat :
          /\ <<Drop(fs)>> \in Seq(Item) /\ Dropped(<<Drop(fs)>>) = fs
          /\ <<Drop(fs), Purge>> \in Seq(Item) /\ Dropped(<<Drop(fs), Purge>>) = fs
          /\ HasPurge(<<Drop(fs), Purge>>)
          /\ <<Purge, Drop(fs)>> \in Seq(Item) /\ Dropped(<<Purge, Drop(fs)>>) = fs
          /\ HasPurge(<<Purge, Drop(fs)>>)
    /\ <<Purge>> \in Seq(Item) /\ Dropped(<<Purge>>) = {} /\ HasPurge(<<Purge>>)
    /\ <<>> \in Seq(Item) /\ Dropped(<<>>) = {}
<1>1. ASSUME NEW a, NEW b PROVE Dropped(<<a, b>>) = a.files \cup b.files
  <2>1. PICK s : s = <<a, b>>
    OBVIOUS
  <2>2. Len(s) = 2 /\ s[1] = a /\ s[2] = b
    BY <2>1
  <2>3. 1..Len(s) = {1, 2}
    BY <2>2
  <2>4. Dropped(s) = s[1].files \cup s[2].files
    BY <2>3 DEF Dropped
  <2>5. QED
    BY <2>1, <2>2, <2>4
<1>2. ASSUME NEW a PROVE Dropped(<<a>>) = a.files
  BY DEF Dropped
<1>3. ASSUME NEW fs \in SUBSET Nat PROVE Drop(fs) \in Item /\ Drop(fs).files = fs
  BY DEF Drop, Item
<1>4. Purge \in Item /\ Purge.files = {} /\ Purge.k = "purge"
  BY DEF Purge, Item
<1>5. ASSUME NEW a PROVE HasPurge(<<a, Purge>>) /\ HasPurge(<<Purge, a>>)
  <2>1. PICK s, t : s = <<a, Purge>> /\ t = <<Purge, a>>
    OBVIOUS
  <2>2. 2 \in 1..Len(s) /\ s[2] = Purge /\ 1 \in 1..Len(t) /\ t[1] = Purge
    BY <2>1
  <2>3. HasPurge(s) /\ HasPurge(t)
    BY <1>4, <2>2 DEF HasPurge
  <2>4. QED
    BY <2>1, <2>3
<1>6. HasPurge(<<Purge>>)
  BY <1>4 DEF HasPurge
<1>7. Dropped(<<>>) = {}
  BY DEF Dropped
<1> HIDE DEF Dropped, HasPurge, Item, Drop, Purge
<1>8. ASSUME NEW a \in Item, NEW b \in Item PROVE <<a>> \in Seq(Item) /\ <<a, b>> \in Seq(Item)
  OBVIOUS
<1>9. ASSUME NEW fs \in SUBSET Nat
      PROVE  /\ <<Drop(fs)>> \in Seq(Item) /\ Dropped(<<Drop(fs)>>) = fs
             /\ <<Drop(fs), Purge>> \in Seq(Item) /\ Dropped(<<Drop(fs), Purge>>) = fs
             /\ HasPurge(<<Drop(fs), Purge>>)
             /\ <<Purge, Drop(fs)>> \in Seq(Item) /\ Dropped(<<Purge, Drop(fs)>>) = fs
             /\ HasPurge(<<Purge, Drop(fs)>>)
  <2>1. PICK a : a = Drop(fs)
    OBVIOUS
  <2>2. a \in Item /\ a.files = fs
    BY <1>3, <2>1
  <2>3. <<a>> \in Seq(Item) /\ <<a, Purge>> \in Seq(Item) /\ <<Purge, a>> \in Seq(Item)
    BY <1>4, <1>8, <2>2
  <2>4. Dropped(<<a>>) = fs /\ Dropped(<<a, Purge>>) = fs /\ Dropped(<<Purge, a>>) = fs
    BY <1>1, <1>2, <1>4, <2>2
  <2>5. HasPurge(<<a, Purge>>) /\ HasPurge(<<Purge, a>>)
    BY <1>5
  <2>6. QED
    BY <2>1, <2>3, <2>4, <2>5
<1>10. <<Purge>> \in Seq(Item) /\ Dropped(<<Purge>>) = {} /\ <<>> \in Seq(Item)
  BY <1>2, <1>4, <1>8
<1>11. QED
  BY <1>6, <1>7, <1>9, <1>10, Zenon

LEMMA Tails ==
    ASSUME NEW todo \in Seq(Item), todo # <<>>
    PROVE  /\ Tail(todo) \in Seq(Item) /\ Head(todo) \in Item
           /\ Dropped(todo) = Head(todo).files \cup Dropped(Tail(todo))
           /\ HasPurge(todo) => Head(todo).k = "purge" \/ HasPurge(Tail(todo))
<1>1. PICK t : t = Tail(todo)
  OBVIOUS
<1>2. /\ t \in Seq(Item) /\ Len(t) = Len(todo) - 1 /\ Len(todo) \in Nat /\ Len(todo) > 0
      /\ \A i \in 1..Len(t) : t[i] = todo[i + 1]
  BY <1>1
<1>3. Head(todo) = todo[1] /\ 1 \in 1..Len(todo)
  BY <1>2
<1>4. \A i \in 1..Len(todo) : i = 1 \/ (i - 1 \in 1..Len(t) /\ t[i - 1] = todo[i])
  BY <1>2
<1>5. \A i \in 1..Len(t) : i + 1 \in 1..Len(todo)
  BY <1>2
<1>6. todo[1] \in Item
  BY <1>3
<1>7. Dropped(todo) = todo[1].files \cup Dropped(t)
  <2>1. ASSUME NEW f \in Dropped(todo) PROVE f \in todo[1].files \cup Dropped(t)
    BY <1>4 DEF Dropped
  <2>2. ASSUME NEW f \in Dropped(t) PROVE f \in Dropped(todo)
    BY <1>2, <1>5 DEF Dropped
  <2>3. todo[1].files \subseteq Dropped(todo)
    BY <1>3 DEF Dropped
  <2>4. QED
    BY <2>1, <2>2, <2>3
<1>8. HasPurge(todo) => todo[1].k = "purge" \/ HasPurge(t)
  BY <1>4 DEF HasPurge
<1>9. QED
  BY <1>1, <1>2, <1>3, <1>6, <1>7, <1>8

(***************************************************************************)
(* Rows, files and turns                                                   *)
(***************************************************************************)
\* A row's cover is a number, and so are an event's images.
LEMMA AssetsAreNumbers ==
    ASSUME Typed, NEW e \in Ids
    PROVE  /\ rows[e] \in Row /\ rows[e].cover \in 0..uploads /\ uploads \in Nat
           /\ CoverOf(e) \in SUBSET (1..uploads) /\ Images(e) \in SUBSET (1..uploads)
           /\ AssetsOf(e) \in SUBSET (1..uploads) /\ AssetsOf(e) \in SUBSET Nat
<1>1. rows[e] \in Row /\ rows[e].cover <= uploads /\ uploads \in 0..MaxUploads
  BY DEF Typed, TypeOK
<1>2. rows[e].cover \in 0..uploads /\ uploads \in Nat
  BY <1>1, EventsAssumption DEF Row
<1>3. CoverOf(e) \in SUBSET (1..uploads)
  BY <1>2 DEF CoverOf, NoFile
<1>4. QED
  BY <1>1, <1>2, <1>3 DEF Images, AssetsOf

\* Its images are its gallery rows.
LEMMA ImagesAre ==
    ASSUME Typed, NEW e \in Ids
    PROVE  \A f : f \in Images(e) <=> <<e, f>> \in gallery
  BY DEF Typed, TypeOK, Images

\* Nobody else is served meanwhile: their promises are empty.
LEMMA Turns ==
    ASSUME EventsInv, NEW w \in Workers, ~Idle(w), NEW x, Hold(w, x), serial' = serial
    PROVE  /\ DOMAIN op' = Workers /\ op'[w] = x /\ \A v \in Workers \ {w} : op'[v] = op[v]
           /\ OneAtATime'
           /\ serial => \A v \in Workers \ {w} : op[v].do = "idle"
<1>1. DOMAIN op = Workers /\ OneAtATime
  BY DEF EventsInv, Typed
<1>2. DOMAIN op' = Workers /\ op'[w] = x /\ \A v \in Workers \ {w} : op'[v] = op[v]
  BY <1>1 DEF Hold
<1>3. serial => \A v \in Workers \ {w} : op[v].do = "idle"
  BY <1>1 DEF OneAtATime, Idle
<1>4. OneAtATime'
  BY <1>1, <1>2, <1>3 DEF OneAtATime, Idle
<1>5. QED
  BY <1>2, <1>3, <1>4

\* A request that is done promises nothing and holds nothing.
LEMMA IdlePromises ==
    ASSUME NEW x, x.do = "idle"
    PROVE  OpTyped(x) /\ Promise(x) /\ Held(x) = {} /\ OpTyped(x)' /\ Promise(x)'
  BY DEF OpTyped, Promise, Resolved, Uploaded, Held

\* Once idle, all that is in storage is attached and nothing cached is stale.
LEMMA WhenQuiet ==
    ASSUME EventsInv, \A w \in Workers : Idle(w), serial, faults = 0
    PROVE  /\ \A f \in files : Attached(f)
           /\ \A e \in Ids : ~Stale(e)
<1>1. \A w \in Workers : op[w].do = "idle"
  BY DEF Idle
<1>2. ASSUME NEW f \in files PROVE Attached(f)
  BY <1>1 DEF EventsInv, NoneLost, Held
<1>3. ASSUME NEW e \in Ids PROVE ~Stale(e)
  BY <1>1 DEF EventsInv, PurgeComes, Doing
<1>4. QED
  BY <1>2, <1>3

\* While the one request served has not written yet, what is in storage is
\* attached or its own, and nothing cached is stale.
LEMMA WhenBusy ==
    ASSUME EventsInv, NEW w \in Workers, ~Idle(w), serial, faults = 0
    PROVE  /\ \A f \in files : Attached(f) \/ f \in Held(op[w])
           /\ \A e \in Ids : Stale(e) => op[w].do = "after" /\ op[w].id = e /\ HasPurge(op[w].todo)
<1>1. \A v \in Workers \ {w} : op[v].do = "idle"
  BY DEF EventsInv, OneAtATime, Idle
<1>2. \A v \in Workers \ {w} : Held(op[v]) = {}
  BY <1>1 DEF Held
<1>3. ASSUME NEW f \in files PROVE Attached(f) \/ f \in Held(op[w])
  BY <1>2 DEF EventsInv, NoneLost
<1>4. ASSUME NEW e \in Ids, Stale(e)
      PROVE  op[w].do = "after" /\ op[w].id = e /\ HasPurge(op[w].todo)
  BY <1>1, <1>4 DEF EventsInv, PurgeComes, Doing
<1>5. QED
  BY <1>3, <1>4

\* The promises after a step of w, if those of its next operation hold.
LEMMA PromisesOf ==
    ASSUME EventsInv, NEW w \in Workers, ~Idle(w), NEW x, Hold(w, x), serial' = serial,
           serial => Promise(x)'
    PROVE  Promises'
<1>1. op'[w] = x /\ \A v \in Workers \ {w} : op'[v] = op[v]
  BY Turns
<1>2. ASSUME serial, NEW v \in Workers PROVE Promise(op[v])'
  <2>1. PICK y : y = op'[v]
    OBVIOUS
  <2>2. Promise(y)'
    <3>1. CASE v = w
      BY <1>1, <1>2, <2>1, <3>1
    <3>2. CASE v # w
      <4>1. y.do = "idle"
        BY <1>1, <1>2, <2>1, <3>2, Turns
      <4>2. QED
        BY <4>1, IdlePromises
    <3>3. QED
      BY <3>1, <3>2
  <2>3. QED
    BY <2>1, <2>2 DEF Promise, Resolved, Uploaded
<1>3. QED
  BY <1>2 DEF Promises

\* The operations after a step of w.
LEMMA OpsOf ==
    ASSUME EventsInv, NEW w \in Workers, NEW x, Hold(w, x), OpTyped(x)',
           uploads' \in Nat, uploads' >= uploads
    PROVE  DOMAIN op' = Workers /\ \A v \in Workers : OpTyped(op[v])'
<1>1. /\ DOMAIN op' = Workers /\ op'[w] = x /\ \A v \in Workers \ {w} : op'[v] = op[v]
      /\ \A v \in Workers : OpTyped(op[v])
  BY DEF Hold, EventsInv, Typed
<1>2. uploads \in Nat
  BY EventsAssumption DEF EventsInv, Typed, TypeOK
<1>3. ASSUME NEW v \in Workers PROVE OpTyped(op[v])'
  <2>1. PICK y : y = op'[v]
    OBVIOUS
  <2>2. CASE v = w
    BY <1>1, <2>1, <2>2 DEF OpTyped
  <2>3. CASE v # w
    <3>1. OpTyped(y)
      BY <1>1, <2>1, <2>3
    <3>2. y.do \in {"save", "fill"} => y.row.cover <= uploads'
      BY <1>2, <3>1, EventsAssumption DEF OpTyped, Row
    <3>3. 1..uploads \subseteq 1..uploads'
      BY <1>2
    <3>4. OpTyped(y)'
      BY <3>1, <3>2, <3>3 DEF OpTyped
    <3>5. QED
      BY <2>1, <3>4 DEF OpTyped
  <2>4. QED
    BY <2>2, <2>3
<1>4. QED
  BY <1>1, <1>3

(***************************************************************************)
(* Requests that begin                                                     *)
(***************************************************************************)
\* A request begins with fresh files N: nothing is in flight when requests are
\* served alone, so its own promise is all there is.
LEMMA StartKeeps ==
    ASSUME EventsInv, NEW w \in Workers, NEW x, Start(w, x),
           NEW N, files' = files \cup N, cleaned' = cleaned, uploads' \in uploads..MaxUploads,
           N \subseteq (uploads + 1)..uploads',
           OpTyped(x)', serial => Promise(x)' /\ N \subseteq Held(x)
    PROVE  EventsInv'
<1>1. /\ Idle(w) /\ (serial => \A v \in Workers : Idle(v)) /\ Hold(w, x)
      /\ UNCHANGED <<org, rows, gallery, cache, faults, serial>>
      /\ served' = served + 1 /\ (served < MaxRequests \/ served < MaxRacing)
  BY DEF Start, tables
<1>2. /\ DOMAIN op' = Workers /\ op'[w] = x /\ \A v \in Workers \ {w} : op'[v] = op[v]
  BY <1>1 DEF Hold, EventsInv, Typed
<1>3. /\ Typed /\ uploads \in Nat /\ uploads' \in Nat /\ uploads' >= uploads /\ uploads' <= MaxUploads
      /\ files \subseteq 1..uploads
  BY EventsAssumption DEF EventsInv, Typed, TypeOK
<1>4. DOMAIN op' = Workers /\ \A v \in Workers : OpTyped(op[v])'
  BY <1>1, <1>3, OpsOf
<1>5. TypeOK'
  <2>1. /\ gallery' \subseteq Ids \X (1..uploads') /\ files' \subseteq 1..uploads'
        /\ cleaned' \subseteq 1..uploads'
    <3>1. 1..uploads \subseteq 1..uploads' /\ N \subseteq 1..uploads'
      BY <1>3
    <3>2. QED
      BY <1>1, <1>3, <3>1 DEF Typed, TypeOK
  <2>2. \A e \in Ids : rows'[e].cover <= uploads'
    <3>1. \A e \in Ids : rows[e].cover \in 0..uploads
      BY <1>3, AssetsAreNumbers
    <3>2. QED
      BY <1>1, <1>3, <3>1
  <2>3. \A e \in Ids : cache'[e] # NoEntry => cache'[e].body \in [title: Titles, cover: 0..uploads']
    <3>1. 0..uploads \subseteq 0..uploads'
      BY <1>3
    <3>2. \A b \in [title: Titles, cover: 0..uploads] : b \in [title: Titles, cover: 0..uploads']
      BY <3>1
    <3>3. QED
      BY <1>1, <1>3, <3>2 DEF Typed, TypeOK
  <2>4. served' \in 0..(MaxRequests + MaxRacing)
    BY <1>1, <1>3, EventsAssumption DEF Typed, TypeOK
  <2>5. QED
    BY <1>1, <1>3, <2>1, <2>2, <2>3, <2>4 DEF Typed, TypeOK
<1>6. Typed'
  BY <1>1, <1>3, <1>4, <1>5 DEF Typed
<1>7. \A e \in Ids : CoverOf(e)' = CoverOf(e) /\ Images(e)' = Images(e) /\ (Live(e)' <=> Live(e))
  <2>1. ASSUME NEW e \in Ids PROVE Images(e)' = Images(e)
    <3>1. \A f : f \in Images(e) <=> <<e, f>> \in gallery
      BY <1>3, ImagesAre
    <3>2. \A f : <<e, f>> \in gallery => f \in 1..uploads
      BY <1>3 DEF Typed, TypeOK
    <3>3. 1..uploads \subseteq 1..uploads'
      BY <1>3
    <3>4. QED
      BY <1>1, <3>1, <3>2, <3>3 DEF Images
  <2>2. QED
    BY <1>1, <2>1 DEF CoverOf, Live
<1>8. OneAtATime'
  BY <1>1, <1>2 DEF OneAtATime, Idle
<1>9. Owned'
  BY <1>1, <1>7 DEF EventsInv, Owned, AssetsOf
<1>10. Promises'
  <2>1. ASSUME serial, NEW v \in Workers PROVE Promise(op[v])'
    <3>1. PICK y : y = op'[v]
      OBVIOUS
    <3>2. v = w \/ y.do = "idle"
      BY <1>1, <1>2, <2>1, <3>1 DEF Idle
    <3>3. Promise(y)'
      BY <1>2, <2>1, <3>1, <3>2, IdlePromises
    <3>4. QED
      BY <3>1, <3>3 DEF Promise, Resolved, Uploaded
  <2>2. QED
    BY <1>1, <2>1 DEF Promises
<1>11. CoverStored'
  BY <1>1, <1>7 DEF EventsInv, CoverStored
<1>12. NoneLost'
  <2>1. SUFFICES ASSUME serial, faults = 0, NEW f \in files'
                 PROVE  Attached(f)' \/ \E v \in Workers : f \in Held(op'[v])
    BY <1>1 DEF NoneLost, Held
  <2>2. CASE f \in files
    <3>1. Attached(f)
      BY <1>1, <2>1, <2>2, WhenQuiet
    <3>2. QED
      BY <1>1, <1>7, <3>1 DEF Attached, AssetsOf
  <2>3. CASE f \in N
    BY <1>2, <2>1, <2>3
  <2>4. QED
    BY <2>2, <2>3
<1>13. PurgeComes'
  <2>1. SUFFICES ASSUME serial, faults = 0, NEW e \in Ids, Stale(e)' PROVE FALSE
    BY <1>1 DEF PurgeComes
  <2>2. Stale(e)
    BY <1>1, <2>1 DEF Stale, Published, Live
  <2>3. QED
    BY <1>1, <2>1, <2>2, WhenQuiet
<1>14. QED
  BY <1>6, <1>8, <1>9, <1>10, <1>11, <1>12, <1>13 DEF EventsInv

\* Without a file.
LEMMA BeginKeeps ==
    ASSUME EventsInv, NEW w \in Workers, NEW x, Start(w, x), UNCHANGED <<files, cleaned, uploads>>,
           OpTyped(x), serial => Promise(x)
    PROVE  EventsInv'
<1>1. UNCHANGED <<org, rows, gallery, files, cleaned, uploads, faults>>
  BY DEF Start, tables
<1>2. files' = files \cup {} /\ uploads' \in uploads..MaxUploads /\ {} \subseteq (uploads + 1)..uploads'
  BY EventsAssumption DEF EventsInv, Typed, TypeOK
<1>3. OpTyped(x)'
  BY <1>1 DEF OpTyped
<1>4. serial => Promise(x)'
  BY <1>1 DEF Promise, Resolved, Uploaded, AssetsOf, CoverOf, Images, Live, Published
<1>5. QED
  BY <1>1, <1>2, <1>3, <1>4, StartKeeps

LEMMA CreateBegins ==
    ASSUME EventsInv, NEW w \in Workers, NEW e \in Ids, NEW t \in Titles, NEW s \in Slugs \cup {0},
           CreateEvent(w, e, t, s)
    PROVE  EventsInv'
<1>1. PICK x : x = [do |-> "create", id |-> e, title |-> t, auto |-> s = 0, tries |-> 1,
                    slug |-> IF s = 0 THEN UniqueSlug ELSE s]
  OBVIOUS
<1>2. Start(w, x) /\ org /\ rows[e].state = "none" /\ UNCHANGED <<files, cleaned, uploads>>
  BY <1>1 DEF CreateEvent
<1>3. x.slug \in Slugs
  BY <1>1, SlugIsFree DEF CreateEvent
<1>4. x.do = "create" /\ x.id = e /\ x.title = t /\ DOMAIN x = {"do", "id", "title", "auto", "tries", "slug"}
  BY <1>1
<1>5. OpTyped(x)
  BY <1>3, <1>4 DEF OpTyped
<1>6. Promise(x)
  BY <1>2, <1>4 DEF Promise, Resolved, Uploaded
<1>7. QED
  BY <1>2, <1>5, <1>6, BeginKeeps

\* An edit of a live row, which keeps its state and its cover, or drops it.
LEMMA EditKeeps ==
    ASSUME EventsInv, NEW w \in Workers, NEW e \in Ids, NEW row, NEW todo, Edit(w, e, row, todo),
           row \in Row, row.state = rows[e].state,
           rows[e].status = "CANCELLED" => row.status = "CANCELLED",
           \/ row.cover = rows[e].cover /\ todo = <<Purge>>
           \/ row.cover = NoFile /\ todo = <<Drop(CoverOf(e)), Purge>>
    PROVE  EventsInv'
<1>1. PICK x : x = Saving(e, row, {}, todo)
  OBVIOUS
<1>2. Start(w, x) /\ org /\ Live(e) /\ UNCHANGED <<files, cleaned, uploads>>
  BY <1>1 DEF Edit
<1>3. /\ x.do = "save" /\ x.id = e /\ x.row = row /\ x.imgs = {} /\ x.new = {} /\ x.todo = todo
  BY <1>1 DEF Saving
<1>4. /\ rows[e].cover \in 0..uploads /\ uploads \in Nat /\ CoverOf(e) \in SUBSET Nat
      /\ CoverOf(e) = {rows[e].cover} \ {NoFile}
  <2>1. Typed
    BY DEF EventsInv
  <2>2. QED
    BY <2>1, AssetsAreNumbers DEF CoverOf
<1>5. /\ todo \in Seq(Item) /\ HasPurge(todo)
      /\ row.cover = rows[e].cover => Dropped(todo) = {} \/ row.cover = NoFile
      /\ Dropped(todo) \in {{}, CoverOf(e)}
      /\ row.cover # rows[e].cover => row.cover = NoFile /\ Dropped(todo) = CoverOf(e)
  BY <1>4, CleanUps
<1>6. row.cover <= uploads /\ row.state = "live"
  BY <1>2, <1>4 DEF NoFile, Live
<1>7. OpTyped(x)
  BY <1>3, <1>5, <1>6 DEF OpTyped
<1>8. Resolved(x) /\ Uploaded(x)
  BY <1>2, <1>3, <1>5 DEF Resolved, Uploaded
<1>9. serial => row.cover \in files \cup cleaned \cup {NoFile}
  BY <1>2, <1>4, <1>5 DEF EventsInv, CoverStored
<1>10. row.cover \in AssetsOf(e) \cup {NoFile}
  BY <1>4, <1>5 DEF AssetsOf
<1>11. row.cover \notin Dropped(todo) /\ Dropped(todo) \subseteq CoverOf(e)
       /\ CoverOf(e) \subseteq {row.cover} \cup Dropped(todo)
  BY <1>4, <1>5
<1>12. serial => Promise(x)
  BY <1>3, <1>8, <1>9, <1>10, <1>11 DEF Promise
<1>13. QED
  BY <1>2, <1>7, <1>12, BeginKeeps

\* An update, a transition.
LEMMA EditsBegin ==
    ASSUME EventsInv, NEW w \in Workers, NEW e \in Ids,
           \/ \E t \in Titles, s \in Slugs, clear \in BOOLEAN : UpdateEvent(w, e, t, s, clear)
           \/ Publish(w, e) \/ Unpublish(w, e) \/ Cancel(w, e)
    PROVE  EventsInv'
<1>1. rows[e] \in Row
  BY AssetsAreNumbers DEF EventsInv
<1>2. NoFile \in 0..MaxUploads
  BY EventsAssumption DEF NoFile
<1>3. ASSUME NEW t \in Titles, NEW s \in Slugs, NEW clear \in BOOLEAN, UpdateEvent(w, e, t, s, clear)
      PROVE  EventsInv'
  <2>1. PICK r, q : /\ r = [rows[e] EXCEPT !.title = t, !.slug = s]
                    /\ q = [r EXCEPT !.cover = NoFile]
    OBVIOUS
  <2>2. /\ r \in Row /\ q \in Row /\ r.state = rows[e].state /\ q.state = rows[e].state
        /\ r.status = rows[e].status /\ q.status = rows[e].status
        /\ r.cover = rows[e].cover /\ q.cover = NoFile
    BY <1>1, <1>2, <2>1 DEF Row
  <2>3. Edit(w, e, r, <<Purge>>) \/ Edit(w, e, q, <<Drop(CoverOf(e)), Purge>>)
    BY <1>3, <2>1 DEF UpdateEvent
  <2>4. QED
    BY <2>2, <2>3, EditKeeps
<1>4. ASSUME NEW st \in Statuses, rows[e].status # "CANCELLED",
             Edit(w, e, [rows[e] EXCEPT !.status = st], <<Purge>>)
      PROVE  EventsInv'
  <2>1. PICK r : r = [rows[e] EXCEPT !.status = st]
    OBVIOUS
  <2>2. r \in Row /\ r.state = rows[e].state /\ r.cover = rows[e].cover
    BY <1>1, <2>1 DEF Row
  <2>3. QED
    BY <1>4, <2>1, <2>2, EditKeeps
<1>5. QED
  BY <1>3, <1>4 DEF Publish, MayPublish, Unpublish, Cancel, Transition, Statuses

LEMMA DeleteBegins ==
    ASSUME EventsInv, NEW w \in Workers, NEW e \in Ids, DeleteEvent(w, e)
    PROVE  EventsInv'
<1>1. PICK fs : fs = AssetsOf(e)
  OBVIOUS
<1>2. PICK x : x = [do |-> "delete", id |-> e, todo |-> <<Purge, Drop(fs)>>]
  OBVIOUS
<1>3. Start(w, x) /\ org /\ Live(e) /\ UNCHANGED <<files, cleaned, uploads>>
  BY <1>1, <1>2 DEF DeleteEvent, AssetsOf
<1>4. fs \in SUBSET Nat
  BY <1>1, AssetsAreNumbers DEF EventsInv
<1>5. x.do = "delete" /\ x.id = e /\ x.todo \in Seq(Item) /\ HasPurge(x.todo) /\ Dropped(x.todo) = fs
  BY <1>2, <1>4, CleanUps
<1>6. OpTyped(x)
  BY <1>5 DEF OpTyped
<1>7. Promise(x)
  BY <1>1, <1>3, <1>5 DEF Promise, Resolved, Uploaded
<1>8. QED
  BY <1>3, <1>6, <1>7, BeginKeeps

LEMMA DeleteOrgBegins ==
    ASSUME EventsInv, NEW w \in Workers, DeleteOrg(w)
    PROVE  EventsInv'
<1>1. PICK fs : fs = ListOrgAssets
  OBVIOUS
<1>2. PICK x : x = [do |-> "deleteOrg", todo |-> <<Drop(fs)>>]
  OBVIOUS
<1>3. Start(w, x) /\ org /\ UNCHANGED <<files, cleaned, uploads>>
  BY <1>1, <1>2 DEF DeleteOrg
<1>4. \A e \in Ids : AssetsOf(e) \in SUBSET Nat
  BY AssetsAreNumbers DEF EventsInv
<1>5. fs \in SUBSET Nat /\ \A e \in Ids : Live(e) => AssetsOf(e) \subseteq fs
  BY <1>1, <1>4 DEF ListOrgAssets, AssetsOf
<1>6. x.do = "deleteOrg" /\ DOMAIN x = {"do", "todo"} /\ x.todo \in Seq(Item) /\ Dropped(x.todo) = fs
  BY <1>2, <1>5, CleanUps
<1>7. OpTyped(x)
  BY <1>6 DEF OpTyped
<1>8. Promise(x)
  BY <1>3, <1>5, <1>6 DEF Promise, Resolved, Uploaded
<1>9. QED
  BY <1>3, <1>7, <1>8, BeginKeeps

LEMMA GetBegins ==
    ASSUME EventsInv, NEW w \in Workers, NEW e \in Ids, GetPublicEvent(w, e)
    PROVE  EventsInv'
<1>1. PICK x : x = [do |-> "fill", id |-> e, row |-> rows[e]]
  OBVIOUS
<1>2. Start(w, x) /\ Published(e) /\ UNCHANGED <<files, cleaned, uploads>>
  BY <1>1 DEF GetPublicEvent
<1>3. x.do = "fill" /\ x.id = e /\ x.row = rows[e]
  BY <1>1
<1>4. rows[e] \in Row /\ rows[e].cover <= uploads
  BY DEF EventsInv, Typed, TypeOK
<1>5. Live(e) /\ rows[e].state = "live"
  BY <1>2 DEF Published, Live
<1>6. OpTyped(x)
  BY <1>3, <1>4, <1>5 DEF OpTyped
<1>7. Promise(x)
  BY <1>2, <1>3, <1>5 DEF Promise, Resolved, Uploaded
<1>8. QED
  BY <1>2, <1>6, <1>7, BeginKeeps

\* Files that are stored under new names belong to no event.
LEMMA Stored ==
    ASSUME EventsInv, NEW n \in 1..2, StoreFiles(n)
    PROVE  /\ uploads \in Nat /\ uploads + 1 \in Nat /\ uploads + 1 \in NewFiles(n)
           /\ NewFiles(n) \in SUBSET Nat /\ NewFiles(n) \subseteq 1..uploads' /\ uploads + 1 <= uploads'
           /\ NewFiles(n) \subseteq (uploads + 1)..uploads'
           /\ uploads' \in uploads..MaxUploads /\ uploads + 1 \in 0..MaxUploads
           /\ files' = files \cup NewFiles(n) /\ cleaned' = cleaned
           /\ \A e \in Ids : NewFiles(n) \cap AssetsOf(e) = {}
<1>1. uploads \in Nat /\ MaxUploads \in Nat /\ uploads' = uploads + n /\ uploads + n <= MaxUploads
  BY EventsAssumption DEF EventsInv, Typed, TypeOK, StoreFiles
<1>2. /\ NewFiles(n) = (uploads + 1)..(uploads + n)
      /\ files' = files \cup NewFiles(n) /\ cleaned' = cleaned
  BY DEF NewFiles, StoreFiles
<1>3. \A e \in Ids : AssetsOf(e) \subseteq 1..uploads
  BY AssetsAreNumbers DEF EventsInv
<1>4. \A e \in Ids : NewFiles(n) \cap AssetsOf(e) = {}
  <2>1. \A f \in NewFiles(n) : f \notin 1..uploads
    BY <1>1, <1>2
  <2>2. QED
    BY <1>3, <2>1
<1>5. QED
  BY <1>1, <1>2, <1>4

\* The assets of the events, while the tables rest.
LEMMA SameAssets ==
    ASSUME Typed, UNCHANGED <<rows, gallery>>, uploads' \in Nat, uploads' >= uploads
    PROVE  \A e \in Ids : /\ CoverOf(e)' = CoverOf(e) /\ Images(e)' = Images(e)
                          /\ AssetsOf(e)' = AssetsOf(e) /\ (Live(e)' <=> Live(e))
<1>1. ASSUME NEW e \in Ids PROVE Images(e)' = Images(e)
  <2>1. \A f : f \in Images(e) <=> <<e, f>> \in gallery
    BY ImagesAre
  <2>2. \A f : <<e, f>> \in gallery => f \in 1..uploads
    BY DEF Typed, TypeOK
  <2>3. 1..uploads \subseteq 1..uploads'
    BY EventsAssumption DEF Typed, TypeOK
  <2>4. QED
    BY <2>1, <2>2, <2>3 DEF Images
<1>2. QED
  BY <1>1 DEF CoverOf, Live, AssetsOf

\* A new cover, shared with the gallery or not.
LEMMA CoverBegins ==
    ASSUME EventsInv, NEW w \in Workers, NEW e \in Ids, NEW n \in 1..2, StoreFiles(n),
           org, Live(e), NEW imgs, NEW todo,
           \/ n = 1 /\ imgs = {} /\ todo = <<Drop(CoverOf(e)), Purge>>
           \/ rows[e].cover = NoFile /\ imgs = NewFiles(n) /\ todo = <<Purge>>,
           Start(w, [Saving(e, [rows[e] EXCEPT !.cover = uploads + 1], imgs, todo) EXCEPT !.new = NewFiles(n)])
    PROVE  EventsInv'
<1>1. PICK row, y, N : /\ row = [rows[e] EXCEPT !.cover = uploads + 1]
                       /\ y = Saving(e, row, imgs, todo) /\ N = NewFiles(n)
  OBVIOUS
<1>2. PICK x : x = [y EXCEPT !.new = N]
  OBVIOUS
<1>3. DOMAIN y = {"do", "id", "row", "imgs", "new", "todo"}
  BY <1>1 DEF Saving
<1>4. /\ x.do = "save" /\ x.id = e /\ x.row = row /\ x.imgs = imgs /\ x.new = N /\ x.todo = todo
  BY <1>1, <1>2, <1>3 DEF Saving
<1>5. Start(w, x)
  BY <1>1, <1>2
<1>6. /\ uploads \in Nat /\ uploads + 1 \in N /\ N \in SUBSET Nat /\ N \subseteq 1..uploads'
      /\ uploads + 1 <= uploads' /\ uploads + 1 \in 0..MaxUploads /\ files' = files \cup N /\ cleaned' = cleaned
      /\ uploads' \in uploads..MaxUploads /\ N \subseteq (uploads + 1)..uploads'
      /\ \A d \in Ids : N \cap AssetsOf(d) = {}
  BY <1>1, Stored
<1>7. rows[e] \in Row /\ CoverOf(e) \in SUBSET Nat
  BY AssetsAreNumbers DEF EventsInv
<1>8. /\ row \in Row /\ row.cover = uploads + 1 /\ row.state = "live" /\ row.status = rows[e].status
  BY <1>1, <1>6, <1>7 DEF Row, Live
<1>9. todo \in Seq(Item) /\ HasPurge(todo) /\ Dropped(todo) = CoverOf(e)
  BY <1>7, CleanUps DEF CoverOf
<1>10. imgs \subseteq N /\ N \subseteq {uploads + 1} \cup imgs
  BY <1>1, <1>6 DEF NewFiles
<1>11. OpTyped(x)'
  BY <1>4, <1>6, <1>8, <1>9, <1>10 DEF OpTyped
<1>12. Typed /\ UNCHANGED <<org, rows, gallery>> /\ uploads' \in Nat /\ uploads' >= uploads
  BY <1>5, <1>6, EventsAssumption DEF EventsInv, Start, tables
<1>13. \A d \in Ids : CoverOf(d)' = CoverOf(d) /\ AssetsOf(d)' = AssetsOf(d) /\ (Live(d)' <=> Live(d))
  BY <1>12, SameAssets
<1>14. Resolved(x)'
  BY <1>4, <1>8, <1>9, <1>12, <1>13 DEF Resolved
<1>15. Uploaded(x)'
  BY <1>4, <1>6, <1>10, <1>13 DEF Uploaded
<1>16. CoverOf(e) \subseteq AssetsOf(e)
  BY DEF AssetsOf
<1>17. Promise(x)'
  BY <1>4, <1>6, <1>8, <1>9, <1>10, <1>13, <1>14, <1>15, <1>16 DEF Promise
<1>18. N \subseteq Held(x)
  BY <1>4 DEF Held
<1>19. QED
  BY <1>5, <1>6, <1>11, <1>17, <1>18, StartKeeps

\* Images beside the cover, and an upload that fails.
LEMMA UploadsBegin ==
    ASSUME EventsInv, NEW w \in Workers, NEW e \in Ids, NEW n \in 1..2, StoreFiles(n),
           org, Live(e), NEW x, Start(w, x),
           \/ x = [do |-> "images", id |-> e, imgs |-> NewFiles(n), new |-> NewFiles(n), todo |-> <<>>]
           \/ x = [do |-> "after", id |-> e, todo |-> <<Drop(NewFiles(n))>>]
    PROVE  EventsInv'
<1>1. PICK N : N = NewFiles(n)
  OBVIOUS
<1>2. /\ uploads \in Nat /\ N \in SUBSET Nat /\ N \subseteq 1..uploads' /\ files' = files \cup N
      /\ cleaned' = cleaned /\ uploads' \in uploads..MaxUploads /\ N \subseteq (uploads + 1)..uploads'
      /\ \A d \in Ids : N \cap AssetsOf(d) = {}
  BY <1>1, Stored
<1>3. Typed /\ UNCHANGED <<org, rows, gallery>> /\ uploads' \in Nat /\ uploads' >= uploads
  BY <1>2, EventsAssumption DEF EventsInv, Start, tables
<1>4. \A d \in Ids : CoverOf(d)' = CoverOf(d) /\ AssetsOf(d)' = AssetsOf(d) /\ (Live(d)' <=> Live(d))
  BY <1>3, SameAssets
<1>5. \/ x.do = "images" /\ x.id = e /\ x.imgs = N /\ x.new = N
      \/ /\ x.do = "after" /\ DOMAIN x = {"do", "id", "todo"} /\ x.id = e
         /\ x.todo \in Seq(Item) /\ Dropped(x.todo) = N
  <2>1. CASE x = [do |-> "images", id |-> e, imgs |-> NewFiles(n), new |-> NewFiles(n), todo |-> <<>>]
    BY <1>1, <2>1
  <2>2. CASE x = [do |-> "after", id |-> e, todo |-> <<Drop(NewFiles(n))>>]
    <3>1. PICK t : t = <<Drop(N)>>
      OBVIOUS
    <3>2. t \in Seq(Item) /\ Dropped(t) = N
      BY <1>2, <3>1, CleanUps
    <3>3. x = [do |-> "after", id |-> e, todo |-> t]
      BY <1>1, <2>2, <3>1
    <3>4. QED
      BY <3>2, <3>3
  <2>3. QED
    BY <2>1, <2>2
<1>6. OpTyped(x)'
  BY <1>2, <1>5 DEF OpTyped
<1>7. \A d \in Ids : CoverOf(d) \subseteq AssetsOf(d)
  BY DEF AssetsOf
<1>8. Resolved(x)' /\ Uploaded(x)'
  BY <1>2, <1>3, <1>4, <1>5 DEF Resolved, Uploaded
<1>9. Promise(x)'
  <2>1. \A d \in Ids : CoverOf(d)' \cap N = {}
    BY <1>2, <1>4, <1>7
  <2>2. QED
    BY <1>5, <1>8, <2>1 DEF Promise
<1>10. N \subseteq Held(x)
  BY <1>5 DEF Held
<1>11. QED
  BY <1>2, <1>6, <1>9, <1>10, StartKeeps

\* Every request begins well.
LEMMA BeginsKeep == ASSUME EventsInv, NEW w \in Workers, Begin(w) PROVE EventsInv'
<1>1. ASSUME NEW e \in Ids, SetCover(w, e) PROVE EventsInv'
  <2>1. 1 \in 1..2
    OBVIOUS
  <2>2. QED
    BY <1>1, <2>1, CoverBegins DEF SetCover
<1>2. ASSUME NEW e \in Ids, NEW n \in 1..2, AddGalleryImages(w, e, n) PROVE EventsInv'
  <2>1. org /\ Live(e) /\ StoreFiles(n)
    BY <1>2 DEF AddGalleryImages
  <2>2. CASE rows[e].cover = NoFile
    BY <1>2, <2>1, <2>2, CoverBegins DEF AddGalleryImages
  <2>3. CASE rows[e].cover # NoFile
    <3>1. PICK x : x = [do |-> "images", id |-> e, imgs |-> NewFiles(n), new |-> NewFiles(n), todo |-> <<>>]
      OBVIOUS
    <3>2. Start(w, x)
      BY <1>2, <2>3, <3>1 DEF AddGalleryImages
    <3>3. QED
      BY <2>1, <3>1, <3>2, UploadsBegin
  <2>4. QED
    BY <2>2, <2>3
<1>3. ASSUME NEW e \in Ids, NEW n \in 1..2, UploadFails(w, e, n) PROVE EventsInv'
  <2>1. PICK x : x = [do |-> "after", id |-> e, todo |-> <<Drop(NewFiles(n))>>]
    OBVIOUS
  <2>2. QED
    BY <1>3, <2>1, UploadsBegin DEF UploadFails
<1>4. CASE \E e \in Ids, t \in Titles, s \in Slugs \cup {0} : CreateEvent(w, e, t, s)
  BY <1>4, CreateBegins
<1>5. CASE \E e \in Ids : \/ \E t \in Titles, s \in Slugs, clear \in BOOLEAN : UpdateEvent(w, e, t, s, clear)
                         \/ Publish(w, e) \/ Unpublish(w, e) \/ Cancel(w, e)
  BY <1>5, EditsBegin
<1>6. CASE \E e \in Ids : DeleteEvent(w, e) \/ SetCover(w, e) \/ GetPublicEvent(w, e)
  BY <1>1, <1>6, DeleteBegins, GetBegins
<1>7. CASE \E e \in Ids, n \in 1..2 : AddGalleryImages(w, e, n) \/ UploadFails(w, e, n)
  BY <1>2, <1>3, <1>7
<1>8. QED
  BY <1>4, <1>5, <1>6, <1>7, DeleteOrgBegins DEF Begin

(***************************************************************************)
(* Transactions                                                            *)
(***************************************************************************)
\* A step that moves the request and leaves tables, files and cache alone.
LEMMA MoveKeeps ==
    ASSUME EventsInv, NEW w \in Workers, ~Idle(w), NEW x, Hold(w, x),
           UNCHANGED <<tables, files, cleaned, uploads, cache, served, serial>>,
           faults' = faults \/ faults' \in 1..MaxFaults,
           OpTyped(x), serial => Promise(x),
           (serial /\ faults' = 0) =>
               /\ Held(op[w]) \subseteq Held(x)
               /\ op[w].do = "after" /\ HasPurge(op[w].todo) => x = op[w]
    PROVE  EventsInv'
<1>1. Typed /\ uploads \in Nat
  BY EventsAssumption DEF EventsInv, Typed, TypeOK
<1>2. DOMAIN op' = Workers /\ op'[w] = x /\ \A v \in Workers \ {w} : op'[v] = op[v]
  BY Turns
<1>3. OpTyped(x)' /\ (serial => Promise(x)')
  BY DEF OpTyped, Promise, Resolved, Uploaded, AssetsOf, CoverOf, Images, Live, Published, tables
<1>4. DOMAIN op' = Workers /\ \A v \in Workers : OpTyped(op[v])'
  BY <1>1, <1>3, OpsOf
<1>5. faults' \in 0..MaxFaults
  BY <1>1 DEF Typed, TypeOK
<1>6. Typed'
  <2>1. TypeOK'
    BY <1>1, <1>5 DEF Typed, TypeOK, tables
  <2>2. QED
    BY <1>1, <1>4, <2>1 DEF Typed, tables
<1>7. OneAtATime'
  BY Turns
<1>8. Owned' /\ CoverStored'
  BY DEF EventsInv, Owned, CoverStored, AssetsOf, CoverOf, Images, Live, tables
<1>9. Promises'
  BY <1>3, PromisesOf
<1>10. ASSUME serial, faults' = 0 PROVE faults = 0
  BY <1>1, <1>10
<1>11. NoneLost'
  <2>1. SUFFICES ASSUME serial, faults' = 0, NEW f \in files
                 PROVE  Attached(f)' \/ \E v \in Workers : f \in Held(op'[v])
    BY DEF NoneLost, Held
  <2>2. Attached(f) \/ f \in Held(op[w])
    BY <1>10, <2>1, WhenBusy
  <2>3. Attached(f)' <=> Attached(f)
    BY DEF Attached, AssetsOf, CoverOf, Images, Live, tables
  <2>4. QED
    BY <1>2, <2>1, <2>2, <2>3
<1>12. PurgeComes'
  <2>1. SUFFICES ASSUME serial, faults' = 0, NEW e \in Ids, Stale(e)'
                 PROVE  \E v \in Workers : op'[v].do = "after" /\ op'[v].id = e /\ HasPurge(op'[v].todo)
    BY DEF PurgeComes, Doing, HasPurge
  <2>2. Stale(e)
    BY <2>1 DEF Stale, Published, Live, tables
  <2>3. op[w].do = "after" /\ op[w].id = e /\ HasPurge(op[w].todo)
    BY <1>10, <2>1, <2>2, WhenBusy
  <2>4. QED
    BY <1>2, <2>1, <2>3
<1>13. QED
  BY <1>6, <1>7, <1>8, <1>9, <1>11, <1>12 DEF EventsInv

\* What w is doing, with its type and its promise.
LEMMA Busy ==
    ASSUME EventsInv, NEW w \in Workers
    PROVE  Typed /\ OpTyped(op[w]) /\ (serial => Promise(op[w]))
  BY DEF EventsInv, Typed, Promises

\* An insert that meets a taken slug tries the next one or gives up.
LEMMA TakenKeeps ==
    ASSUME EventsInv, NEW w \in Workers, CommitCreate(w), UNCHANGED rows
    PROVE  EventsInv'
<1>1. PICK r : r = op[w] /\ r.do = "create"
  BY DEF CommitCreate, Doing
<1>2. /\ OpTyped(r) /\ (serial => Promise(r)) /\ ~Idle(w)
      /\ UNCHANGED <<tables, files, cleaned, uploads, cache, served, faults, serial>>
  BY <1>1, Busy DEF CommitCreate, Idle, tables
<1>3. ASSUME NEW x, Hold(w, x), OpTyped(x), serial => Promise(x) PROVE EventsInv'
  <2>1. Held(op[w]) = {} /\ op[w].do # "after"
    BY <1>1 DEF Held
  <2>2. QED
    BY <1>2, <1>3, <2>1, MoveKeeps
<1>4. CASE Hold(w, [do |-> "idle"])
  <2>1. PICK x : x = [do |-> "idle"]
    OBVIOUS
  <2>2. x.do = "idle"
    BY <2>1
  <2>3. QED
    BY <1>3, <1>4, <2>1, <2>2, IdlePromises
<1>5. CASE Slugs \ LiveSlugs # {} /\ Hold(w, [r EXCEPT !.tries = @ + 1, !.slug = UniqueSlug])
  <2>1. PICK x : x = [r EXCEPT !.tries = @ + 1, !.slug = UniqueSlug]
    OBVIOUS
  <2>2. DOMAIN r = {"do", "id", "title", "auto", "tries", "slug"}
    BY <1>1, <1>2 DEF OpTyped
  <2>3. /\ DOMAIN x = DOMAIN r /\ x.do = "create" /\ x.id = r.id /\ x.title = r.title /\ x.slug = UniqueSlug
    BY <1>1, <2>1, <2>2
  <2>4. OpTyped(x)
    BY <1>1, <1>2, <1>5, <2>2, <2>3, SlugIsFree DEF OpTyped
  <2>5. serial => Promise(x)
    BY <1>1, <1>2, <2>3 DEF Promise, Resolved, Uploaded
  <2>6. QED
    BY <1>3, <1>5, <2>1, <2>4, <2>5
<1>6. QED
  <2>1. CASE /\ ~SlugTaken(r.id, r.slug)
             /\ rows' = [rows EXCEPT ![r.id] = [state |-> "live", status |-> "DRAFT", title |-> r.title,
                                                slug |-> r.slug, cover |-> NoFile]]
             /\ Hold(w, [do |-> "idle"])
    BY <1>4, <2>1
  <2>2. QED
    BY <1>1, <1>4, <1>5, <2>1 DEF CommitCreate

\* A transaction that fails cleans up its uploads.
LEMMA FailKeeps ==
    ASSUME EventsInv, NEW w \in Workers, CommitFails(w)
    PROVE  EventsInv'
<1>1. PICK r : r = op[w] /\ r.do \in {"save", "images"}
  BY DEF CommitFails
<1>2. PICK x : x = [do |-> "after", id |-> r.id, todo |-> <<Drop(r.new)>>]
  OBVIOUS
<1>3. Hold(w, x) /\ UNCHANGED <<tables, files, cleaned, uploads, cache, served, serial>>
  BY <1>1, <1>2 DEF CommitFails, After
<1>4. OpTyped(r) /\ (serial => Promise(r)) /\ ~Idle(w) /\ Typed
  BY <1>1, Busy DEF Idle
<1>5. faults' \in 1..MaxFaults
  BY <1>4, EventsAssumption DEF CommitFails, Typed, TypeOK
<1>6. r.id \in Ids /\ r.new \in SUBSET Nat
  BY <1>1, <1>4 DEF OpTyped
<1>7. /\ x.do = "after" /\ DOMAIN x = {"do", "id", "todo"} /\ x.id \in Ids
      /\ x.todo \in Seq(Item) /\ Dropped(x.todo) = r.new
  BY <1>2, <1>6, CleanUps
<1>8. OpTyped(x)
  BY <1>7 DEF OpTyped
<1>9. serial => Promise(x)
  <2>1. serial => \A e \in Ids : r.new \cap AssetsOf(e) = {}
    BY <1>1, <1>4 DEF Promise, Uploaded
  <2>2. QED
    BY <1>7, <2>1 DEF Promise, Resolved, Uploaded, AssetsOf
<1>10. faults' # 0
  BY <1>5
<1>11. QED
  BY <1>3, <1>4, <1>5, <1>8, <1>9, <1>10, MoveKeeps

\* A row that is inserted is a draft without a cover, under a fresh id that
\* no cached payload speaks of.
LEMMA InsertKeeps ==
    ASSUME EventsInv, NEW w \in Workers, CommitCreate(w), ~UNCHANGED rows
    PROVE  EventsInv'
<1>1. PICK r : r = op[w] /\ r.do = "create"
  BY DEF CommitCreate, Doing
<1>2. PICK x : x = [do |-> "idle"]
  OBVIOUS
<1>3. PICK n : n = [state |-> "live", status |-> "DRAFT", title |-> r.title, slug |-> r.slug, cover |-> NoFile]
  OBVIOUS
<1>4. /\ rows' = [rows EXCEPT ![r.id] = n] /\ Hold(w, x)
      /\ UNCHANGED <<org, gallery, files, cleaned, uploads, cache, served, faults, serial>>
  BY <1>1, <1>2, <1>3 DEF CommitCreate
<1>5. OpTyped(r) /\ (serial => Promise(r)) /\ ~Idle(w) /\ Typed /\ uploads \in Nat
  BY <1>1, Busy, EventsAssumption DEF Idle, Typed, TypeOK
<1>6. r.id \in Ids /\ n \in Row /\ n.cover = NoFile /\ n.status = "DRAFT" /\ n.state = "live"
  BY <1>1, <1>3, <1>5, EventsAssumption DEF OpTyped, Row, Statuses, NoFile
<1>7. x.do = "idle"
  BY <1>2
<1>8. /\ DOMAIN op' = Workers /\ op'[w] = x /\ \A v \in Workers \ {w} : op'[v] = op[v]
  BY <1>4, <1>5, Turns
<1>9. /\ rows \in [Ids -> Row] /\ rows'[r.id] = n /\ \A e \in Ids \ {r.id} : rows'[e] = rows[e]
      /\ rows' \in [Ids -> Row]
  BY <1>4, <1>5, <1>6 DEF Typed, TypeOK
<1>10. Typed'
  <2>1. \A v \in Workers : OpTyped(op[v])'
    BY <1>4, <1>5, <1>7, IdlePromises, OpsOf
  <2>2. \A e \in Ids : rows'[e].cover <= uploads
    BY <1>5, <1>6, <1>9 DEF Typed, TypeOK, NoFile
  <2>3. TypeOK'
    BY <1>4, <1>5, <1>9, <2>2 DEF Typed, TypeOK
  <2>4. QED
    BY <1>4, <1>5, <1>6, <1>8, <1>9, <2>1, <2>3 DEF Typed
<1>11. OneAtATime'
  BY <1>4, <1>5, Turns
<1>12. \A e \in Ids : CoverOf(e)' \subseteq CoverOf(e) /\ Images(e)' = Images(e)
  BY <1>4, <1>6, <1>9 DEF CoverOf, Images
<1>13. Owned'
  BY <1>4, <1>12 DEF EventsInv, Owned, AssetsOf
<1>14. Promises'
  BY <1>4, <1>5, <1>7, IdlePromises, PromisesOf
<1>15. \A e \in Ids \ {r.id} : (Live(e)' <=> Live(e)) /\ CoverOf(e)' = CoverOf(e)
  BY <1>9 DEF Live, CoverOf
<1>16. CoverOf(r.id)' = {}
  BY <1>6, <1>9 DEF CoverOf
<1>17. CoverStored'
  BY <1>4, <1>6, <1>15, <1>16 DEF EventsInv, CoverStored
<1>18. serial => rows[r.id].state = "none"
  BY <1>1, <1>5 DEF Promise, Resolved
<1>19. NoneLost'
  <2>1. SUFFICES ASSUME serial, faults = 0, NEW f \in files PROVE Attached(f)'
    BY <1>4 DEF NoneLost, Held
  <2>2. Attached(f)
    BY <1>1, <1>5, <2>1, WhenBusy DEF Held
  <2>3. PICK e \in Ids : Live(e) /\ f \in AssetsOf(e)
    BY <2>2 DEF Attached
  <2>4. e # r.id
    BY <1>18, <2>1, <2>3 DEF Live
  <2>5. QED
    BY <1>4, <1>12, <1>15, <2>2, <2>3, <2>4 DEF Attached, AssetsOf
<1>20. PurgeComes'
  <2>1. SUFFICES ASSUME serial, faults = 0, NEW e \in Ids, Stale(e)' PROVE FALSE
    BY <1>4 DEF PurgeComes
  <2>2. ~Stale(e) /\ ~Stale(r.id)
    BY <1>1, <1>5, <1>6, <2>1, WhenBusy
  <2>3. CASE e = r.id
    <3>1. cache[r.id] = NoEntry
      BY <1>18, <2>1, <2>2 DEF Stale, Published, Live
    <3>2. QED
      BY <1>4, <2>1, <2>3, <3>1 DEF Stale
  <2>4. CASE e # r.id
    BY <1>4, <1>9, <2>1, <2>2, <2>4 DEF Stale, Published, Live
  <2>5. QED
    BY <2>3, <2>4
<1>21. QED
  BY <1>10, <1>11, <1>13, <1>14, <1>17, <1>19, <1>20 DEF EventsInv

\* A saved copy: its new files become the event's, its old cover is dropped.
LEMMA SaveKeeps ==
    ASSUME EventsInv, NEW w \in Workers, CommitSave(w)
    PROVE  EventsInv'
<1>1. PICK r : r = op[w] /\ r.do = "save"
  BY DEF CommitSave, Doing
<1>2. /\ OpTyped(r) /\ (serial => Promise(r)) /\ ~Idle(w) /\ Typed /\ uploads \in Nat
      /\ UNCHANGED <<org, files, cleaned, uploads, cache, served, faults, serial>>
  BY <1>1, Busy, EventsAssumption DEF CommitSave, Idle, Typed, TypeOK
<1>3. r.id \in Ids /\ r.row \in Row /\ r.row.cover <= uploads /\ r.row.state = "live"
      /\ r.imgs \subseteq 1..uploads /\ r.new \subseteq 1..uploads /\ r.todo \in Seq(Item)
  BY <1>1, <1>2 DEF OpTyped
<1>4. CASE After(w, r.id, <<Drop(r.new)>>) /\ UNCHANGED <<rows, gallery>>
  <2>1. PICK x : x = [do |-> "after", id |-> r.id, todo |-> <<Drop(r.new)>>]
    OBVIOUS
  <2>2. Hold(w, x) /\ UNCHANGED <<tables, files, cleaned, uploads, cache, served, serial>> /\ faults' = faults
    BY <1>2, <1>4, <2>1 DEF After, tables
  <2>3. r.new \in SUBSET Nat
    BY <1>3
  <2>4. /\ x.do = "after" /\ DOMAIN x = {"do", "id", "todo"} /\ x.id = r.id
        /\ x.todo \in Seq(Item) /\ Dropped(x.todo) = r.new
    BY <2>1, <2>3, CleanUps
  <2>5. OpTyped(x)
    BY <1>3, <2>4 DEF OpTyped
  <2>6. serial => Promise(x)
    <3>1. serial => \A e \in Ids : r.new \cap AssetsOf(e) = {}
      BY <1>1, <1>2 DEF Promise, Uploaded
    <3>2. QED
      BY <2>4, <3>1 DEF Promise, Resolved, Uploaded, AssetsOf
  <2>7. Held(r) \subseteq Held(x)
    BY <1>1, <2>4 DEF Held
  <2>8. QED
    BY <1>1, <1>2, <2>2, <2>5, <2>6, <2>7, MoveKeeps
<1>5. CASE /\ rows' = [rows EXCEPT ![r.id] = r.row] /\ gallery' = gallery \cup ({r.id} \X r.imgs)
           /\ After(w, r.id, r.todo)
  <2>1. PICK x : x = [do |-> "after", id |-> r.id, todo |-> r.todo]
    OBVIOUS
  <2>2. /\ Hold(w, x) /\ x.do = "after" /\ DOMAIN x = {"do", "id", "todo"}
        /\ x.id = r.id /\ x.todo = r.todo
    BY <1>5, <2>1 DEF After
  <2>3. /\ DOMAIN op' = Workers /\ op'[w] = x /\ \A v \in Workers \ {w} : op'[v] = op[v]
    BY <1>2, <2>2, Turns
  <2>4. /\ rows \in [Ids -> Row] /\ rows' \in [Ids -> Row] /\ rows'[r.id] = r.row
        /\ \A e \in Ids \ {r.id} : rows'[e] = rows[e]
    BY <1>2, <1>3, <1>5 DEF Typed, TypeOK
  <2>5. OpTyped(x)'
    BY <1>2, <1>3, <2>2 DEF OpTyped
  <2>6. Typed'
    <3>1. \A v \in Workers : OpTyped(op[v])'
      BY <1>2, <2>2, <2>5, OpsOf
    <3>2. gallery' \subseteq Ids \X (1..uploads)
      BY <1>2, <1>3, <1>5 DEF Typed, TypeOK
    <3>3. \A e \in Ids : rows'[e].cover <= uploads
      BY <1>2, <1>3, <2>4 DEF Typed, TypeOK
    <3>4. TypeOK'
      BY <1>2, <2>4, <3>2, <3>3 DEF Typed, TypeOK
    <3>5. QED
      BY <1>2, <1>3, <2>3, <2>4, <3>1, <3>4 DEF Typed
  <2>7. OneAtATime'
    BY <1>2, <2>2, Turns
  <2>8. \A f : \A e \in Ids : f \in Images(e)' <=> (f \in Images(e) \/ (e = r.id /\ f \in r.imgs))
    <3>1. \A f : \A e \in Ids : f \in Images(e)' <=> <<e, f>> \in gallery'
      BY <1>2, <2>6 DEF Typed, TypeOK, Images
    <3>2. \A f : \A e \in Ids : <<e, f>> \in gallery' <=> (<<e, f>> \in gallery \/ (e = r.id /\ f \in r.imgs))
      BY <1>5
    <3>3. QED
      BY <1>2, <3>1, <3>2, ImagesAre
  <2>9. /\ \A e \in Ids \ {r.id} : AssetsOf(e)' = AssetsOf(e) /\ CoverOf(e)' = CoverOf(e) /\ (Live(e)' <=> Live(e))
        /\ CoverOf(r.id)' = {r.row.cover} \ {NoFile} /\ Live(r.id)'
        /\ AssetsOf(r.id)' = ({r.row.cover} \ {NoFile}) \cup Images(r.id) \cup r.imgs
    BY <1>3, <2>4, <2>8 DEF AssetsOf, CoverOf, Live
  <2>10. serial => /\ AssetsOf(r.id)' \subseteq AssetsOf(r.id) \cup r.new
                   /\ \A e \in Ids : r.new \cap AssetsOf(e) = {}
                   /\ Dropped(r.todo) \subseteq CoverOf(r.id) /\ r.row.cover \notin Dropped(r.todo)
                   /\ r.row.cover \in files \cup cleaned \cup {NoFile}
    BY <1>1, <1>2, <1>3, <2>9 DEF Promise, Uploaded, AssetsOf
  <2>11. Owned'
    <3>1. SUFFICES ASSUME serial, NEW d \in Ids, NEW e \in Ids, d # e PROVE AssetsOf(d)' \cap AssetsOf(e)' = {}
      BY <1>2 DEF Owned
    <3>2. AssetsOf(d) \cap AssetsOf(e) = {}
      BY <3>1 DEF EventsInv, Owned
    <3>3. QED
      BY <2>9, <2>10, <3>1, <3>2
  <2>12. serial => \A e \in Ids : Live(e)' => CoverOf(e)' \cap Dropped(r.todo) = {}
    <3>1. SUFFICES ASSUME serial, NEW e \in Ids PROVE CoverOf(e)' \cap Dropped(r.todo) = {}
      OBVIOUS
    <3>2. CASE e = r.id
      BY <2>9, <2>10, <3>1, <3>2
    <3>3. CASE e # r.id
      <4>1. AssetsOf(e) \cap AssetsOf(r.id) = {}
        BY <1>3, <3>1, <3>3 DEF EventsInv, Owned
      <4>2. QED
        BY <2>9, <2>10, <3>1, <3>3, <4>1 DEF AssetsOf
    <3>4. QED
      BY <3>2, <3>3
  <2>13. serial => Promise(x)'
    BY <2>2, <2>12 DEF Promise, Resolved, Uploaded
  <2>14. Promises'
    BY <1>2, <2>2, <2>13, PromisesOf
  <2>15. CoverStored'
    <3>1. SUFFICES ASSUME serial, org, NEW e \in Ids, Live(e)' PROVE CoverOf(e)' \subseteq files \cup cleaned
      BY <1>2 DEF CoverStored
    <3>2. CASE e = r.id
      BY <2>9, <2>10, <3>1, <3>2
    <3>3. CASE e # r.id
      BY <2>9, <3>1, <3>3 DEF EventsInv, CoverStored
    <3>4. QED
      BY <3>2, <3>3
  <2>16. NoneLost'
    <3>1. SUFFICES ASSUME serial, faults = 0, NEW f \in files PROVE Attached(f)' \/ f \in Dropped(r.todo)
      BY <1>2, <2>2, <2>3 DEF NoneLost, Held
    <3>2. org /\ Promise(r)
      BY <1>1, <1>2, <3>1 DEF Promise, Resolved
    <3>3. CASE f \in r.new
      <4>1. f \in {r.row.cover} \cup r.imgs /\ f # NoFile
        BY <1>1, <1>3, <3>2, <3>3 DEF Promise, NoFile
      <4>2. QED
        BY <1>2, <1>3, <2>9, <3>2, <4>1 DEF Attached
    <3>4. CASE f \notin r.new
      <4>1. Attached(f)
        BY <1>1, <1>2, <3>1, <3>4, WhenBusy DEF Held
      <4>2. PICK e \in Ids : Live(e) /\ f \in AssetsOf(e)
        BY <4>1 DEF Attached
      <4>3. CASE e # r.id
        BY <1>2, <2>9, <3>2, <4>2, <4>3 DEF Attached
      <4>4. CASE e = r.id
        <5>1. f \in Images(r.id) \/ (f \in {r.row.cover} \cup Dropped(r.todo) /\ f # NoFile)
          BY <1>1, <3>2, <4>2, <4>4 DEF Promise, AssetsOf, CoverOf
        <5>2. QED
          BY <1>2, <1>3, <2>9, <3>2, <5>1 DEF Attached
      <4>5. QED
        BY <4>3, <4>4
    <3>5. QED
      BY <3>3, <3>4
  <2>17. PurgeComes'
    <3>1. SUFFICES ASSUME serial, faults = 0, NEW e \in Ids, Stale(e)' PROVE e = r.id /\ HasPurge(r.todo)
      BY <1>2, <2>2, <2>3 DEF PurgeComes, Doing, HasPurge
    <3>2. ~Stale(e)
      BY <1>1, <1>2, <3>1, WhenBusy
    <3>3. e = r.id
      BY <1>2, <2>4, <3>1, <3>2 DEF Stale, Published, Live
    <3>4. QED
      BY <1>1, <1>2, <3>1, <3>3 DEF Promise, Resolved
  <2>18. QED
    BY <2>6, <2>7, <2>11, <2>14, <2>15, <2>16, <2>17 DEF EventsInv
<1>6. QED
  BY <1>1, <1>4, <1>5 DEF CommitSave

\* Images that are inserted become the event's.
LEMMA ImagesKeep ==
    ASSUME EventsInv, NEW w \in Workers, CommitImages(w)
    PROVE  EventsInv'
<1>1. PICK r : r = op[w] /\ r.do = "images"
  BY DEF CommitImages, Doing
<1>2. /\ OpTyped(r) /\ (serial => Promise(r)) /\ ~Idle(w) /\ Typed /\ uploads \in Nat
      /\ UNCHANGED <<org, rows, files, cleaned, uploads, cache, served, faults, serial>>
      /\ gallery' = gallery \cup ({r.id} \X r.imgs)
  BY <1>1, Busy, EventsAssumption DEF CommitImages, Idle, Typed, TypeOK
<1>3. r.id \in Ids /\ r.imgs \subseteq 1..uploads /\ r.new \subseteq 1..uploads
  BY <1>1, <1>2 DEF OpTyped
<1>4. PICK x : x = [do |-> "after", id |-> r.id, todo |-> <<>>]
  OBVIOUS
<1>5. /\ Hold(w, x) /\ x.do = "after" /\ DOMAIN x = {"do", "id", "todo"} /\ x.id = r.id
      /\ x.todo \in Seq(Item) /\ Dropped(x.todo) = {}
  BY <1>1, <1>4, CleanUps DEF CommitImages, After
<1>6. /\ DOMAIN op' = Workers /\ op'[w] = x /\ \A v \in Workers \ {w} : op'[v] = op[v]
  BY <1>2, <1>5, Turns
<1>7. OpTyped(x)'
  BY <1>3, <1>5 DEF OpTyped
<1>8. Typed'
  <2>1. \A v \in Workers : OpTyped(op[v])'
    BY <1>2, <1>5, <1>7, OpsOf
  <2>2. gallery' \subseteq Ids \X (1..uploads)
    BY <1>2, <1>3 DEF Typed, TypeOK
  <2>3. TypeOK'
    BY <1>2, <2>2 DEF Typed, TypeOK
  <2>4. QED
    BY <1>2, <1>6, <2>1, <2>3 DEF Typed
<1>9. OneAtATime'
  BY <1>2, <1>5, Turns
<1>10. \A f : \A e \in Ids : f \in Images(e)' <=> (f \in Images(e) \/ (e = r.id /\ f \in r.imgs))
  <2>1. \A f : \A e \in Ids : f \in Images(e)' <=> <<e, f>> \in gallery'
    BY <1>2, <1>8 DEF Typed, TypeOK, Images
  <2>2. \A f : \A e \in Ids : <<e, f>> \in gallery' <=> (<<e, f>> \in gallery \/ (e = r.id /\ f \in r.imgs))
    BY <1>2
  <2>3. QED
    BY <1>2, <2>1, <2>2, ImagesAre
<1>11. /\ \A e \in Ids : CoverOf(e)' = CoverOf(e) /\ (Live(e)' <=> Live(e))
       /\ \A e \in Ids \ {r.id} : AssetsOf(e)' = AssetsOf(e)
       /\ AssetsOf(r.id)' = AssetsOf(r.id) \cup r.imgs
  BY <1>2, <1>3, <1>10 DEF AssetsOf, CoverOf, Live
<1>12. serial => /\ r.imgs = r.new /\ \A e \in Ids : r.new \cap AssetsOf(e) = {}
                 /\ org /\ Live(r.id)
  BY <1>1, <1>2 DEF Promise, Uploaded, Resolved
<1>13. Owned'
  <2>1. SUFFICES ASSUME serial, NEW d \in Ids, NEW e \in Ids, d # e PROVE AssetsOf(d)' \cap AssetsOf(e)' = {}
    BY <1>2 DEF Owned
  <2>2. AssetsOf(d) \cap AssetsOf(e) = {}
    BY <2>1 DEF EventsInv, Owned
  <2>3. QED
    BY <1>11, <1>12, <2>1, <2>2
<1>14. serial => Promise(x)'
  BY <1>5 DEF Promise, Resolved, Uploaded
<1>15. Promises'
  BY <1>2, <1>5, <1>14, PromisesOf
<1>16. CoverStored'
  BY <1>2, <1>11 DEF EventsInv, CoverStored
<1>17. NoneLost'
  <2>1. SUFFICES ASSUME serial, faults = 0, NEW f \in files PROVE Attached(f)'
    BY <1>2 DEF NoneLost, Held
  <2>2. CASE f \in r.new
    BY <1>2, <1>3, <1>11, <1>12, <2>1, <2>2 DEF Attached
  <2>3. CASE f \notin r.new
    <3>1. Attached(f)
      BY <1>1, <1>2, <2>1, <2>3, WhenBusy DEF Held
    <3>2. QED
      BY <1>2, <1>11, <3>1 DEF Attached
  <2>4. QED
    BY <2>2, <2>3
<1>18. PurgeComes'
  <2>1. SUFFICES ASSUME serial, faults = 0, NEW e \in Ids, Stale(e)' PROVE FALSE
    BY <1>2 DEF PurgeComes
  <2>2. Stale(e)
    BY <1>2, <2>1 DEF Stale, Published, Live
  <2>3. QED
    BY <1>1, <1>2, <2>1, <2>2, WhenBusy
<1>19. QED
  BY <1>8, <1>9, <1>13, <1>15, <1>16, <1>17, <1>18 DEF EventsInv

\* A row that is deleted: its files are dropped and nobody else's.
LEMMA DeleteKeeps ==
    ASSUME EventsInv, NEW w \in Workers, CommitDelete(w)
    PROVE  EventsInv'
<1>1. PICK r : r = op[w] /\ r.do = "delete"
  BY DEF CommitDelete, Doing
<1>2. /\ OpTyped(r) /\ (serial => Promise(r)) /\ ~Idle(w) /\ Typed /\ uploads \in Nat
      /\ UNCHANGED <<org, gallery, files, cleaned, uploads, cache, served, faults, serial>>
  BY <1>1, Busy, EventsAssumption DEF CommitDelete, Idle, Typed, TypeOK
<1>3. r.id \in Ids /\ r.todo \in Seq(Item)
  BY <1>1, <1>2 DEF OpTyped
<1>4. PICK x : x = [do |-> "after", id |-> r.id, todo |-> r.todo]
  OBVIOUS
<1>5. /\ Hold(w, x) /\ x.do = "after" /\ DOMAIN x = {"do", "id", "todo"} /\ x.id = r.id /\ x.todo = r.todo
  BY <1>1, <1>4 DEF CommitDelete, After
<1>6. /\ DOMAIN op' = Workers /\ op'[w] = x /\ \A v \in Workers \ {w} : op'[v] = op[v]
  BY <1>2, <1>5, Turns
<1>7. PICK n : n = [rows[r.id] EXCEPT !.state = IF @ = "live" THEN "deleted" ELSE @]
  OBVIOUS
<1>8. rows \in [Ids -> Row] /\ rows[r.id] \in Row
  BY <1>2, <1>3 DEF Typed, TypeOK
<1>9. rows' = [rows EXCEPT ![r.id] = n]
  BY <1>1, <1>3, <1>7, <1>8 DEF CommitDelete
<1>10. /\ n \in Row /\ n.cover = rows[r.id].cover /\ n.status = rows[r.id].status
       /\ n.state # "live" /\ (n.state = "none" => rows[r.id].state = "none")
  BY <1>7, <1>8 DEF Row
<1>11. /\ rows' \in [Ids -> Row] /\ rows'[r.id] = n /\ \A e \in Ids \ {r.id} : rows'[e] = rows[e]
  BY <1>3, <1>8, <1>9, <1>10
<1>12. OpTyped(x)'
  BY <1>3, <1>5 DEF OpTyped
<1>13. Typed'
  <2>1. \A v \in Workers : OpTyped(op[v])'
    BY <1>2, <1>5, <1>12, OpsOf
  <2>2. \A e \in Ids : rows'[e].cover <= uploads
    BY <1>2, <1>10, <1>11 DEF Typed, TypeOK
  <2>3. TypeOK'
    BY <1>2, <1>11, <2>2 DEF Typed, TypeOK
  <2>4. QED
    BY <1>2, <1>3, <1>6, <1>10, <1>11, <2>1, <2>3 DEF Typed
<1>14. OneAtATime'
  BY <1>2, <1>5, Turns
<1>15. \A e \in Ids : CoverOf(e)' = CoverOf(e) /\ Images(e)' = Images(e) /\ AssetsOf(e)' = AssetsOf(e)
  BY <1>2, <1>10, <1>11 DEF CoverOf, Images, AssetsOf
<1>16. ~Live(r.id)' /\ \A e \in Ids \ {r.id} : Live(e)' <=> Live(e)
  BY <1>3, <1>10, <1>11 DEF Live
<1>17. Owned'
  BY <1>2, <1>15 DEF EventsInv, Owned
<1>18. serial => org /\ Live(r.id) /\ HasPurge(r.todo) /\ Dropped(r.todo) = AssetsOf(r.id)
  BY <1>1, <1>2 DEF Promise, Resolved
<1>19. serial => Promise(x)'
  <2>1. serial => \A e \in Ids : Live(e)' => CoverOf(e)' \cap Dropped(r.todo) = {}
    <3>1. SUFFICES ASSUME serial, NEW e \in Ids, Live(e)' PROVE CoverOf(e)' \cap Dropped(r.todo) = {}
      OBVIOUS
    <3>2. e # r.id
      BY <1>16, <3>1
    <3>3. AssetsOf(e) \cap AssetsOf(r.id) = {}
      BY <1>3, <3>1, <3>2 DEF EventsInv, Owned
    <3>4. QED
      BY <1>15, <1>18, <3>1, <3>3 DEF AssetsOf
  <2>2. QED
    BY <1>5, <2>1 DEF Promise, Resolved, Uploaded
<1>20. Promises'
  BY <1>2, <1>5, <1>19, PromisesOf
<1>21. CoverStored'
  BY <1>2, <1>15, <1>16 DEF EventsInv, CoverStored
<1>22. NoneLost'
  <2>1. SUFFICES ASSUME serial, faults = 0, NEW f \in files PROVE Attached(f)' \/ f \in Dropped(r.todo)
    BY <1>2, <1>5, <1>6 DEF NoneLost, Held
  <2>2. Attached(f)
    BY <1>1, <1>2, <2>1, WhenBusy DEF Held
  <2>3. PICK e \in Ids : Live(e) /\ f \in AssetsOf(e)
    BY <2>2 DEF Attached
  <2>4. QED
    BY <1>2, <1>15, <1>16, <1>18, <2>1, <2>2, <2>3 DEF Attached
<1>23. PurgeComes'
  <2>1. SUFFICES ASSUME serial, faults = 0, NEW e \in Ids, Stale(e)' PROVE e = r.id /\ HasPurge(r.todo)
    BY <1>2, <1>5, <1>6 DEF PurgeComes, Doing, HasPurge
  <2>2. ~Stale(e)
    BY <1>1, <1>2, <2>1, WhenBusy
  <2>3. e = r.id
    BY <1>2, <1>11, <2>1, <2>2 DEF Stale, Published, Live
  <2>4. QED
    BY <1>18, <2>1, <2>3
<1>24. QED
  BY <1>13, <1>14, <1>17, <1>20, <1>21, <1>22, <1>23 DEF EventsInv

\* The files of live events go before the transaction, all of them or, when
\* that is counted, some; what is gone is in cleaned.
LEMMA RemoveKeeps ==
    ASSUME EventsInv, NEW w \in Workers, Doing(w, "deleteOrg"), NEW x, Hold(w, x), OpTyped(x),
           x.do \in {"idle", "deleteOrg"}, NEW fs, Remove(fs),
           UNCHANGED <<tables, uploads, cache, served, serial>>,
           \/ /\ faults' = faults /\ x.do = "deleteOrg"
              /\ Dropped(op[w].todo) \subseteq fs \cup Dropped(x.todo)
           \/ faults' \in 1..MaxFaults
    PROVE  EventsInv'
<1>1. PICK r : r = op[w] /\ r.do = "deleteOrg"
  BY DEF Doing
<1>2. /\ OpTyped(r) /\ (serial => Promise(r)) /\ ~Idle(w) /\ Typed /\ uploads \in Nat
      /\ UNCHANGED <<org, rows, gallery>>
  BY <1>1, Busy, EventsAssumption DEF Idle, Typed, TypeOK, tables
<1>3. files' = files \ fs /\ cleaned' = cleaned \cup (files \cap fs)
  BY DEF Remove
<1>4. /\ DOMAIN op' = Workers /\ op'[w] = x /\ \A v \in Workers \ {w} : op'[v] = op[v]
  BY <1>2, Turns
<1>5. OpTyped(x)'
  BY DEF OpTyped
<1>6. Typed'
  <2>1. \A v \in Workers : OpTyped(op[v])'
    BY <1>2, <1>5, OpsOf
  <2>2. files' \subseteq 1..uploads /\ cleaned' \subseteq 1..uploads
    BY <1>2, <1>3 DEF Typed, TypeOK
  <2>3. faults' \in 0..MaxFaults
    BY <1>2, EventsAssumption DEF Typed, TypeOK
  <2>4. TypeOK'
    BY <1>2, <2>2, <2>3 DEF Typed, TypeOK
  <2>5. QED
    BY <1>2, <1>4, <2>1, <2>4 DEF Typed
<1>7. OneAtATime'
  BY <1>2, Turns
<1>8. \A e \in Ids : /\ CoverOf(e)' = CoverOf(e) /\ Images(e)' = Images(e)
                     /\ AssetsOf(e)' = AssetsOf(e) /\ (Live(e)' <=> Live(e))
  BY <1>2 DEF CoverOf, Images, AssetsOf, Live
<1>9. Owned'
  BY <1>2, <1>8 DEF EventsInv, Owned
<1>10. faults' = 0 => /\ faults = 0 /\ x.do = "deleteOrg"
                      /\ Dropped(r.todo) \subseteq fs \cup Dropped(x.todo)
  BY <1>1
<1>11. serial => Promise(x)'
  <2>1. ASSUME serial, faults' = 0, NEW e \in Ids, Live(e)'
        PROVE  AssetsOf(e)' \cap files' \subseteq Dropped(x.todo)
    <3>1. AssetsOf(e) \cap files \subseteq Dropped(r.todo)
      BY <1>1, <1>2, <1>8, <1>10, <2>1 DEF Promise
    <3>2. QED
      BY <1>3, <1>8, <1>10, <2>1, <3>1
  <2>2. serial => org'
    BY <1>1, <1>2 DEF Promise, Resolved
  <2>3. serial => Resolved(x)' /\ Uploaded(x)'
    BY <2>2 DEF Resolved, Uploaded
  <2>4. QED
    BY <2>1, <2>3 DEF Promise
<1>12. Promises'
  BY <1>2, <1>11, PromisesOf
<1>13. CoverStored'
  <2>1. files \cup cleaned \subseteq files' \cup cleaned'
    BY <1>3
  <2>2. QED
    BY <1>2, <1>8, <2>1 DEF EventsInv, CoverStored
<1>14. NoneLost'
  <2>1. SUFFICES ASSUME serial, faults' = 0, NEW f \in files' PROVE Attached(f)'
    BY DEF NoneLost
  <2>2. Attached(f)
    BY <1>1, <1>2, <1>3, <1>10, <2>1, WhenBusy DEF Held
  <2>3. QED
    BY <1>2, <1>8, <2>2 DEF Attached
<1>15. PurgeComes'
  <2>1. SUFFICES ASSUME serial, faults' = 0, NEW e \in Ids, Stale(e)' PROVE FALSE
    BY DEF PurgeComes
  <2>2. Stale(e)
    BY <1>2, <2>1 DEF Stale, Published, Live
  <2>3. QED
    BY <1>1, <1>2, <1>10, <2>1, <2>2, WhenBusy
<1>16. QED
  BY <1>6, <1>7, <1>9, <1>12, <1>13, <1>14, <1>15 DEF EventsInv

\* Both ways in which the files go.
LEMMA RemovalKeeps ==
    ASSUME EventsInv, NEW w \in Workers, CleanAssets(w) \/ RemovalFails(w)
    PROVE  EventsInv'
<1>1. PICK r : r = op[w] /\ r.do = "deleteOrg" /\ r.todo # <<>>
  BY DEF CleanAssets, RemovalFails, Doing
<1>2. PICK x : x = [r EXCEPT !.todo = Tail(@)]
  OBVIOUS
<1>3. PICK y : y = [do |-> "idle"]
  OBVIOUS
<1>4. OpTyped(r) /\ Typed
  BY <1>1, Busy
<1>5. r.todo \in Seq(Item) /\ DOMAIN r = {"do", "todo"}
  BY <1>1, <1>4 DEF OpTyped
<1>6. x.do = "deleteOrg" /\ DOMAIN x = {"do", "todo"} /\ x.todo = Tail(r.todo) /\ y.do = "idle"
  BY <1>1, <1>2, <1>3, <1>5
<1>7. OpTyped(x) /\ OpTyped(y) /\ Dropped(r.todo) = Head(r.todo).files \cup Dropped(x.todo)
  <2>1. x.todo \in Seq(Item) /\ Dropped(r.todo) = Head(r.todo).files \cup Dropped(x.todo)
    BY <1>1, <1>5, <1>6, Tails
  <2>2. QED
    BY <1>6, <2>1, IdlePromises DEF OpTyped
<1>8. CASE CleanAssets(w)
  <2>1. /\ Hold(w, x) /\ Remove(Head(r.todo).files) /\ faults' = faults
        /\ UNCHANGED <<tables, uploads, cache, served, serial>>
    BY <1>1, <1>2, <1>8 DEF CleanAssets, NextOp
  <2>2. Dropped(r.todo) \subseteq Head(r.todo).files \cup Dropped(x.todo)
    BY <1>7
  <2>3. QED
    BY <1>1, <1>6, <1>7, <2>1, <2>2, RemoveKeeps DEF Doing
<1>9. CASE RemovalFails(w)
  <2>1. PICK fs \in SUBSET NextOp(w).files : Remove(fs)
    BY <1>9 DEF RemovalFails
  <2>2. faults' \in 1..MaxFaults
    BY <1>4, <1>9, EventsAssumption DEF RemovalFails, Typed, TypeOK
  <2>3. /\ Hold(w, x) \/ Hold(w, y)
        /\ UNCHANGED <<tables, uploads, cache, served, serial>>
    BY <1>1, <1>2, <1>3, <1>9 DEF RemovalFails
  <2>4. QED
    BY <1>1, <1>6, <1>7, <2>1, <2>2, <2>3, RemoveKeeps DEF Doing
<1>10. QED
  BY <1>8, <1>9

\* Its transaction fails: that is counted.
LEMMA DeleteOrgFailsKeeps ==
    ASSUME EventsInv, NEW w \in Workers, DeleteOrgFails(w)
    PROVE  EventsInv'
<1>1. PICK x : x = [do |-> "idle"]
  OBVIOUS
<1>2. /\ Hold(w, x) /\ x.do = "idle" /\ op[w].do = "deleteOrg" /\ ~Idle(w)
      /\ UNCHANGED <<tables, files, cleaned, uploads, cache, served, serial>>
  BY <1>1 DEF DeleteOrgFails, Doing, Idle
<1>3. faults' \in 1..MaxFaults
  BY EventsAssumption DEF DeleteOrgFails, EventsInv, Typed, TypeOK
<1>4. faults' # 0
  BY <1>3
<1>5. QED
  BY <1>2, <1>3, <1>4, IdlePromises, MoveKeeps

\* The organization goes: its files are gone before it.
LEMMA EndKeeps ==
    ASSUME EventsInv, NEW w \in Workers, CommitDeleteOrg(w)
    PROVE  EventsInv'
<1>1. PICK r : r = op[w] /\ r.do = "deleteOrg" /\ r.todo = <<>>
  BY DEF CommitDeleteOrg, Doing
<1>2. /\ OpTyped(r) /\ (serial => Promise(r)) /\ ~Idle(w) /\ Typed /\ uploads \in Nat
      /\ org' = FALSE /\ UNCHANGED <<rows, gallery, files, cleaned, uploads, cache, served, faults, serial>>
  BY <1>1, Busy, EventsAssumption DEF CommitDeleteOrg, Idle, Typed, TypeOK
<1>3. PICK x : x = [do |-> "idle"]
  OBVIOUS
<1>4. Hold(w, x) /\ x.do = "idle" /\ Dropped(r.todo) = {}
  BY <1>1, <1>3, CleanUps DEF CommitDeleteOrg
<1>5. /\ DOMAIN op' = Workers /\ op'[w] = x /\ \A v \in Workers \ {w} : op'[v] = op[v]
  BY <1>2, <1>4, Turns
<1>6. OpTyped(x)' /\ Promise(x)'
  BY <1>4, IdlePromises
<1>7. Typed'
  <2>1. \A v \in Workers : OpTyped(op[v])'
    BY <1>2, <1>4, <1>6, OpsOf
  <2>2. TypeOK'
    BY <1>2 DEF Typed, TypeOK
  <2>3. QED
    BY <1>2, <1>5, <2>1, <2>2 DEF Typed
<1>8. OneAtATime'
  BY <1>2, <1>4, Turns
<1>9. Owned' /\ CoverStored'
  BY <1>2 DEF EventsInv, Owned, CoverStored, AssetsOf, CoverOf, Images
<1>10. Promises'
  BY <1>2, <1>4, <1>6, PromisesOf
<1>11. NoneLost'
  <2>1. SUFFICES ASSUME serial, faults = 0, NEW f \in files PROVE FALSE
    BY <1>2 DEF NoneLost
  <2>2. Attached(f)
    BY <1>1, <1>2, <2>1, WhenBusy DEF Held
  <2>3. QED
    BY <1>1, <1>2, <1>4, <2>1, <2>2 DEF Attached, Promise
<1>12. PurgeComes'
  <2>1. SUFFICES ASSUME serial, faults = 0, NEW e \in Ids, Stale(e)' PROVE FALSE
    BY <1>2 DEF PurgeComes
  <2>2. Stale(e)
    BY <1>2, <2>1 DEF Stale, Published, Live
  <2>3. QED
    BY <1>1, <1>2, <2>1, <2>2, WhenBusy
<1>13. QED
  BY <1>7, <1>8, <1>9, <1>10, <1>11, <1>12 DEF EventsInv

(***************************************************************************)
(* After the transaction, and public reads                                 *)
(***************************************************************************)
\* A clean-up that succeeds does what was owed.
LEMMA CleanKeeps ==
    ASSUME EventsInv, NEW w \in Workers, CleanUp(w)
    PROVE  EventsInv'
<1>1. PICK r : r = op[w] /\ r.do = "after" /\ r.todo # <<>>
  BY DEF CleanUp, Doing
<1>2. /\ OpTyped(r) /\ (serial => Promise(r)) /\ ~Idle(w) /\ Typed /\ uploads \in Nat
      /\ UNCHANGED <<org, rows, gallery, cleaned, uploads, served, faults, serial>>
  BY <1>1, Busy, EventsAssumption DEF CleanUp, Idle, Typed, TypeOK, tables
<1>3. r.id \in Ids /\ r.todo \in Seq(Item) /\ DOMAIN r = {"do", "id", "todo"}
  BY <1>1, <1>2 DEF OpTyped
<1>4. PICK h, t : h = Head(r.todo) /\ t = Tail(r.todo)
  OBVIOUS
<1>5. /\ t \in Seq(Item) /\ h \in Item /\ Dropped(r.todo) = h.files \cup Dropped(t)
      /\ HasPurge(r.todo) => h.k = "purge" \/ HasPurge(t)
  BY <1>1, <1>3, <1>4, Tails
<1>6. /\ files' = files \ h.files
      /\ cache' = IF h.k = "purge" THEN [cache EXCEPT ![r.id] = NoEntry] ELSE cache
  BY <1>1, <1>4 DEF CleanUp, NextOp
<1>7. PICK x : x = [r EXCEPT !.todo = t]
  OBVIOUS
<1>8. Hold(w, x) /\ x.do = "after" /\ DOMAIN x = {"do", "id", "todo"} /\ x.id = r.id /\ x.todo = t
  <2>1. op' = [op EXCEPT ![w].todo = Tail(@)]
    BY DEF CleanUp
  <2>2. DOMAIN op = Workers
    BY <1>2 DEF Typed
  <2>3. op' = [op EXCEPT ![w] = x]
    BY <1>1, <1>4, <1>7, <2>1, <2>2
  <2>4. QED
    BY <1>1, <1>3, <1>7, <2>3 DEF Hold
<1>9. /\ DOMAIN op' = Workers /\ op'[w] = x /\ \A v \in Workers \ {w} : op'[v] = op[v]
  BY <1>2, <1>8, Turns
<1>10. OpTyped(x)'
  BY <1>3, <1>5, <1>8 DEF OpTyped
<1>11. /\ DOMAIN cache' = Ids /\ \A e \in Ids : cache'[e] = cache[e] \/ cache'[e] = NoEntry
       /\ h.k = "purge" => cache'[r.id] = NoEntry
  BY <1>2, <1>3, <1>6 DEF Typed
<1>12. Typed'
  <2>1. \A v \in Workers : OpTyped(op[v])'
    BY <1>2, <1>8, <1>10, OpsOf
  <2>2. files' \subseteq 1..uploads
    BY <1>2, <1>6 DEF Typed, TypeOK
  <2>3. \A e \in Ids : cache'[e] # NoEntry => cache'[e].body \in [title: Titles, cover: 0..uploads]
    BY <1>2, <1>11 DEF Typed, TypeOK
  <2>4. TypeOK'
    BY <1>2, <2>2, <2>3 DEF Typed, TypeOK
  <2>5. QED
    BY <1>2, <1>9, <1>11, <2>1, <2>4 DEF Typed
<1>13. OneAtATime'
  BY <1>2, <1>8, Turns
<1>14. \A e \in Ids : /\ CoverOf(e)' = CoverOf(e) /\ Images(e)' = Images(e)
                      /\ AssetsOf(e)' = AssetsOf(e) /\ (Live(e)' <=> Live(e))
  BY <1>2 DEF CoverOf, Images, AssetsOf, Live
<1>15. Owned'
  BY <1>2, <1>14 DEF EventsInv, Owned
<1>16. (serial /\ org) => \A e \in Ids : Live(e) => CoverOf(e) \cap (h.files \cup Dropped(t)) = {}
  BY <1>1, <1>2, <1>5 DEF Promise
<1>17. serial => Promise(x)'
  BY <1>2, <1>8, <1>14, <1>16 DEF Promise, Resolved, Uploaded
<1>18. Promises'
  BY <1>2, <1>8, <1>17, PromisesOf
<1>19. CoverStored'
  BY <1>2, <1>6, <1>14, <1>16 DEF EventsInv, CoverStored
<1>20. NoneLost'
  <2>1. SUFFICES ASSUME serial, faults = 0, NEW f \in files' PROVE Attached(f)' \/ f \in Dropped(t)
    BY <1>2, <1>8, <1>9 DEF NoneLost, Held
  <2>2. f \in files /\ f \notin h.files
    BY <1>6, <2>1
  <2>3. Attached(f) \/ f \in Dropped(r.todo)
    BY <1>1, <1>2, <2>1, <2>2, WhenBusy DEF Held
  <2>4. QED
    BY <1>2, <1>5, <1>14, <2>2, <2>3 DEF Attached
<1>21. PurgeComes'
  <2>1. SUFFICES ASSUME serial, faults = 0, NEW e \in Ids, Stale(e)' PROVE e = r.id /\ HasPurge(t)
    BY <1>2, <1>8, <1>9 DEF PurgeComes, Doing, HasPurge
  <2>2. Stale(e) /\ cache'[e] # NoEntry
    BY <1>2, <1>11, <2>1 DEF Stale, Published, Live
  <2>3. e = r.id /\ HasPurge(r.todo)
    BY <1>1, <1>2, <2>1, <2>2, WhenBusy
  <2>4. QED
    BY <1>5, <1>11, <2>2, <2>3
<1>22. QED
  BY <1>12, <1>13, <1>15, <1>18, <1>19, <1>20, <1>21 DEF EventsInv

\* A clean-up that fails, or the death of the process, only moves on: the
\* fault is counted.
LEMMA SkipKeeps ==
    ASSUME EventsInv, NEW w \in Workers, CleanUpFails(w)
    PROVE  EventsInv'
<1>1. PICK r : r = op[w] /\ r.do = "after" /\ r.todo # <<>>
  BY DEF CleanUpFails, Doing
<1>2. /\ OpTyped(r) /\ (serial => Promise(r)) /\ ~Idle(w) /\ Typed
      /\ UNCHANGED <<tables, files, cleaned, uploads, cache, served, serial>>
  BY <1>1, Busy DEF CleanUpFails, Idle
<1>3. r.id \in Ids /\ r.todo \in Seq(Item) /\ DOMAIN r = {"do", "id", "todo"}
  BY <1>1, <1>2 DEF OpTyped
<1>4. faults' \in 1..MaxFaults /\ faults' # 0
  BY <1>2, EventsAssumption DEF CleanUpFails, Typed, TypeOK
<1>5. ASSUME NEW x, Hold(w, x), OpTyped(x), serial => Promise(x) PROVE EventsInv'
  BY <1>2, <1>4, <1>5, MoveKeeps
<1>6. CASE Hold(w, [do |-> "idle"])
  <2>1. PICK x : x = [do |-> "idle"]
    OBVIOUS
  <2>2. x.do = "idle"
    BY <2>1
  <2>3. QED
    BY <1>5, <1>6, <2>1, <2>2, IdlePromises
<1>7. CASE op' = [op EXCEPT ![w].todo = Tail(@)]
  <2>1. PICK t : t = Tail(r.todo)
    OBVIOUS
  <2>2. t \in Seq(Item) /\ Dropped(t) \subseteq Dropped(r.todo)
    BY <1>1, <1>3, <2>1, Tails
  <2>3. PICK x : x = [r EXCEPT !.todo = t]
    OBVIOUS
  <2>4. x.do = "after" /\ DOMAIN x = {"do", "id", "todo"} /\ x.id = r.id /\ x.todo = t
    BY <1>1, <1>3, <2>3
  <2>5. Hold(w, x)
    <3>1. DOMAIN op = Workers
      BY <1>2 DEF Typed
    <3>2. QED
      BY <1>1, <1>7, <2>1, <2>3, <3>1 DEF Hold
  <2>6. OpTyped(x)
    BY <1>3, <2>2, <2>4 DEF OpTyped
  <2>7. serial => Promise(x)
    BY <1>1, <1>2, <2>2, <2>4 DEF Promise, Resolved, Uploaded
  <2>8. QED
    BY <1>5, <2>5, <2>6, <2>7
<1>8. QED
  BY <1>6, <1>7 DEF CleanUpFails

\* A request answers when nothing is left to be done.
LEMMA AnswerKeeps ==
    ASSUME EventsInv, NEW w \in Workers, Answer(w)
    PROVE  EventsInv'
<1>1. PICK r : r = op[w] /\ r.do = "after" /\ r.todo = <<>>
  BY DEF Answer, Doing
<1>2. PICK x : x = [do |-> "idle"]
  OBVIOUS
<1>3. x.do = "idle" /\ Hold(w, x)
  BY <1>2 DEF Answer
<1>4. ~Idle(w) /\ UNCHANGED <<tables, files, cleaned, uploads, cache, served, faults, serial>>
  BY <1>1 DEF Answer, Idle
<1>5. Dropped(r.todo) = {} /\ ~HasPurge(r.todo)
  BY <1>1 DEF Dropped, HasPurge
<1>6. Held(r) = {}
  BY <1>1, <1>5 DEF Held
<1>7. QED
  BY <1>1, <1>3, <1>4, <1>5, <1>6, IdlePromises, MoveKeeps

\* A payload that was read is cached; alone, it is still the row's.
LEMMA FillKeeps ==
    ASSUME EventsInv, NEW w \in Workers, FillCache(w)
    PROVE  EventsInv'
<1>1. PICK r : r = op[w] /\ r.do = "fill"
  BY DEF FillCache, Doing
<1>2. PICK x, n : x = [do |-> "idle"] /\ n = Entry(r.row, PublicEventTTL)
  OBVIOUS
<1>3. /\ x.do = "idle" /\ Hold(w, x) /\ cache' = [cache EXCEPT ![r.id] = n]
      /\ UNCHANGED <<org, rows, gallery, files, cleaned, uploads, served, faults, serial>>
  BY <1>1, <1>2 DEF FillCache, tables
<1>4. /\ OpTyped(r) /\ (serial => Promise(r)) /\ ~Idle(w) /\ Typed /\ uploads \in Nat
  BY <1>1, Busy, EventsAssumption DEF Idle, Typed, TypeOK
<1>5. r.id \in Ids /\ r.row \in Row /\ r.row.cover <= uploads
  BY <1>1, <1>4 DEF OpTyped
<1>6. n.body = PayloadOf(r.row) /\ n.body \in [title: Titles, cover: 0..uploads]
  <2>1. r.row.cover \in 0..uploads /\ r.row.title \in Titles
    BY <1>4, <1>5, EventsAssumption DEF Row
  <2>2. QED
    BY <1>2, <2>1 DEF Entry, PayloadOf
<1>7. /\ DOMAIN op' = Workers /\ op'[w] = x /\ \A v \in Workers \ {w} : op'[v] = op[v]
  BY <1>3, <1>4, Turns
<1>8. /\ DOMAIN cache' = Ids /\ cache'[r.id] = n /\ \A e \in Ids \ {r.id} : cache'[e] = cache[e]
  BY <1>3, <1>4, <1>5 DEF Typed
<1>9. Typed'
  <2>1. \A v \in Workers : OpTyped(op[v])'
    BY <1>3, <1>4, IdlePromises, OpsOf
  <2>2. \A e \in Ids : cache'[e] # NoEntry => cache'[e].body \in [title: Titles, cover: 0..uploads]
    BY <1>4, <1>6, <1>8 DEF Typed, TypeOK
  <2>3. TypeOK'
    BY <1>3, <1>4, <2>2 DEF Typed, TypeOK
  <2>4. QED
    BY <1>3, <1>4, <1>7, <1>8, <2>1, <2>3 DEF Typed
<1>10. OneAtATime'
  BY <1>3, <1>4, Turns
<1>11. Owned' /\ CoverStored'
  BY <1>3 DEF EventsInv, Owned, CoverStored, AssetsOf, CoverOf, Images, Live
<1>12. Promises'
  BY <1>3, <1>4, IdlePromises, PromisesOf
<1>13. NoneLost'
  <2>1. SUFFICES ASSUME serial, faults = 0, NEW f \in files PROVE Attached(f)'
    BY <1>3 DEF NoneLost, Held
  <2>2. Attached(f)
    BY <1>1, <1>4, <2>1, WhenBusy DEF Held
  <2>3. QED
    BY <1>3, <2>2 DEF Attached, AssetsOf, CoverOf, Images, Live
<1>14. PurgeComes'
  <2>1. SUFFICES ASSUME serial, faults = 0, NEW e \in Ids, Stale(e)' PROVE FALSE
    BY <1>3 DEF PurgeComes
  <2>2. CASE e = r.id
    <3>1. Published(e) /\ r.row = rows[e]
      BY <1>1, <1>4, <2>1, <2>2 DEF Promise, Resolved
    <3>2. QED
      BY <1>3, <1>6, <1>8, <2>1, <2>2, <3>1 DEF Stale, Published, Live
  <2>3. CASE e # r.id
    <3>1. Stale(e)
      BY <1>3, <1>8, <2>1, <2>3 DEF Stale, Published, Live
    <3>2. QED
      BY <1>1, <1>4, <2>1, <3>1, WhenBusy
  <2>4. QED
    BY <2>2, <2>3
<1>15. QED
  BY <1>9, <1>10, <1>11, <1>12, <1>13, <1>14 DEF EventsInv

\* An entry that expires is stale no more.
LEMMA ExpireKeeps ==
    ASSUME EventsInv, NEW e \in Ids, Expire(e)
    PROVE  EventsInv'
<1>1. /\ cache' = [cache EXCEPT ![e] = NoEntry]
      /\ UNCHANGED <<org, rows, gallery, files, cleaned, uploads, op, served, faults, serial>>
  BY DEF Expire, tables
<1>2. Typed
  BY DEF EventsInv
<1>3. DOMAIN cache' = Ids /\ cache'[e] = NoEntry /\ \A d \in Ids \ {e} : cache'[d] = cache[d]
  BY <1>1, <1>2 DEF Typed
<1>4. \A w \in Workers : OpTyped(op[w])' /\ (Promise(op[w]) => Promise(op[w])')
  <2>1. ASSUME NEW w \in Workers PROVE OpTyped(op[w])' /\ (Promise(op[w]) => Promise(op[w])')
    <3>1. PICK y : y = op[w] /\ y = op'[w]
      BY <1>1
    <3>2. OpTyped(y)
      BY <1>2, <3>1 DEF Typed
    <3>3. OpTyped(y)'
      BY <1>1, <3>2 DEF OpTyped
    <3>4. Promise(y) => Promise(y)'
      BY <1>1 DEF Promise, Resolved, Uploaded, AssetsOf, CoverOf, Images, Live, Published
    <3>5. OpTyped(op[w])' <=> OpTyped(y)'
      BY <3>1 DEF OpTyped
    <3>6. Promise(op[w])' <=> Promise(y)'
      BY <3>1 DEF Promise, Resolved, Uploaded
    <3>7. QED
      BY <3>1, <3>3, <3>4, <3>5, <3>6
  <2>2. QED
    BY <2>1
<1>5. Typed'
  <2>1. \A d \in Ids : cache'[d] # NoEntry => cache'[d].body \in [title: Titles, cover: 0..uploads]
    BY <1>2, <1>3 DEF Typed, TypeOK
  <2>2. TypeOK'
    BY <1>1, <1>2, <2>1 DEF Typed, TypeOK
  <2>3. QED
    BY <1>1, <1>2, <1>3, <1>4, <2>2 DEF Typed
<1>6. OneAtATime' /\ Owned' /\ CoverStored'
  BY <1>1 DEF EventsInv, OneAtATime, Idle, Owned, CoverStored, AssetsOf, CoverOf, Images, Live
<1>7. Promises'
  BY <1>1, <1>4 DEF EventsInv, Promises
<1>8. NoneLost'
  BY <1>1 DEF EventsInv, NoneLost, Attached, Held, AssetsOf, CoverOf, Images, Live
<1>9. PurgeComes'
  <2>1. \A d \in Ids : Stale(d)' => Stale(d)
    BY <1>1, <1>3 DEF Stale, Published, Live
  <2>2. QED
    BY <1>1, <2>1 DEF EventsInv, PurgeComes, Doing
<1>10. QED
  BY <1>5, <1>6, <1>7, <1>8, <1>9 DEF EventsInv

(***************************************************************************)
(* The specification                                                       *)
(***************************************************************************)
LEMMA EventsStart == Init => EventsInv
<1> SUFFICES ASSUME Init PROVE EventsInv
  OBVIOUS
<1>1. \A w \in Workers : op[w].do = "idle"
  BY DEF Init
<1>2. PICK n : n = [state |-> "none", status |-> "DRAFT", title |-> CHOOSE t \in Titles : TRUE,
                    slug |-> 1, cover |-> NoFile]
  OBVIOUS
<1>3. /\ n \in Row /\ n.cover = NoFile /\ n.state = "none" /\ n.status = "DRAFT"
  BY <1>2, SlugsStart, EventsAssumption DEF Row, Statuses, NoFile
<1>4. rows \in [Ids -> Row] /\ \A e \in Ids : rows[e] = n
  BY <1>2, <1>3 DEF Init
<1>5. \A e \in Ids : cache[e] = NoEntry
  BY DEF Init
<1>6. Typed
  <2>1. TypeOK
    BY <1>3, <1>4, <1>5, EventsAssumption DEF TypeOK, Init, NoFile
  <2>2. \A w \in Workers : OpTyped(op[w])
    BY <1>1, IdlePromises
  <2>3. QED
    BY <1>3, <1>4, <2>1, <2>2 DEF Typed, Init
<1>7. OneAtATime
  BY <1>1 DEF OneAtATime, Idle
<1>8. Owned
  <2>1. \A e \in Ids : CoverOf(e) = {} /\ Images(e) = {}
    BY <1>3, <1>4 DEF CoverOf, Images, Init
  <2>2. QED
    BY <2>1 DEF Owned, AssetsOf
<1>9. Promises
  BY <1>1, IdlePromises DEF Promises
<1>10. CoverStored
  BY <1>3, <1>4 DEF CoverStored, Live
<1>11. NoneLost
  BY DEF NoneLost, Init
<1>12. PurgeComes
  BY <1>5 DEF PurgeComes, Stale
<1>13. QED
  BY <1>6, <1>7, <1>8, <1>9, <1>10, <1>11, <1>12 DEF EventsInv

LEMMA CreateKeeps ==
    ASSUME EventsInv, NEW w \in Workers, CommitCreate(w)
    PROVE  EventsInv'
BY TakenKeeps, InsertKeeps

LEMMA SameKeeps == EventsInv /\ UNCHANGED vars => EventsInv'
<1> SUFFICES ASSUME EventsInv, UNCHANGED vars PROVE EventsInv'
  OBVIOUS
<1>1. Typed'
  BY DEF vars, tables, EventsInv, Typed, TypeOK, OpTyped
<1>2. OneAtATime' /\ Owned' /\ CoverStored'
  BY DEF vars, tables, EventsInv, OneAtATime, Idle, Owned, CoverStored, AssetsOf, CoverOf, Images, Live
<1>3. Promises'
  <2>1. \A e \in Ids : /\ AssetsOf(e)' = AssetsOf(e) /\ CoverOf(e)' = CoverOf(e)
                      /\ (Live(e)' <=> Live(e)) /\ (Published(e)' <=> Published(e))
    BY DEF vars, tables, AssetsOf, CoverOf, Images, Live, Published
  <2>2. /\ op' = op /\ org' = org /\ rows' = rows /\ files' = files /\ cleaned' = cleaned
        /\ faults' = faults /\ serial' = serial
    BY DEF vars, tables
  <2>3. ASSUME NEW w \in Workers, Promise(op[w]),
               op[w].do \notin {"idle", "after", "deleteOrg"} => op[w].id \in Ids
        PROVE  Promise(op[w])'
    <3>1. Resolved(op[w])'
      BY <2>1, <2>2, <2>3 DEF Promise, Resolved
    <3>2. Uploaded(op[w])'
      BY <2>1, <2>2, <2>3 DEF Promise, Uploaded
    <3>3. QED
      BY <2>1, <2>2, <2>3, <3>1, <3>2 DEF Promise
  <2>4. \A w \in Workers : op[w].do \notin {"idle", "after", "deleteOrg"} => op[w].id \in Ids
    BY DEF EventsInv, Typed, OpTyped
  <2>5. QED
    BY <2>2, <2>3, <2>4 DEF EventsInv, Promises
<1>4. NoneLost' /\ PurgeComes'
  BY DEF vars, tables, EventsInv, NoneLost, PurgeComes, Attached, Held, AssetsOf, CoverOf, Images, Live,
         Stale, Published, Doing
<1>5. QED
  BY <1>1, <1>2, <1>3, <1>4 DEF EventsInv

LEMMA EventsStep == EventsInv /\ [Next]_vars => EventsInv'
<1> SUFFICES ASSUME EventsInv, [Next]_vars PROVE EventsInv'
  OBVIOUS
<1>1. ASSUME NEW w \in Workers, Proceed(w) PROVE EventsInv'
  BY <1>1, CreateKeeps, SaveKeeps, ImagesKeep, DeleteKeeps, RemovalKeeps, EndKeeps, CleanKeeps, AnswerKeeps, FillKeeps
     DEF Proceed
<1>2. QED
  BY <1>1, BeginsKeep, FailKeeps, SkipKeeps, RemovalKeeps, DeleteOrgFailsKeeps, ExpireKeeps, SameKeeps DEF Next

LEMMA EventsHold == Spec => []EventsInv
<1>1. QED
  BY EventsStart, EventsStep, PTL DEF Spec

\* However requests overlap, fail and die, what is referenced was stored once;
\* served one at a time, no live event shows a cover whose file is gone, but
\* for what a deletion of the organization removed before its transaction.
THEOREM FilesAreSound == Spec => []FilesSound
<1>1. EventsInv => FilesSound
  BY DEF EventsInv, Typed, FilesSound
<1>2. QED
  BY <1>1, EventsHold, PTL

\* Served one at a time and with no purge lost, every entry of the cache is
\* the payload of a published row.
THEOREM CacheIsFresh == Spec => []CacheFresh
<1>1. EventsInv => CacheFresh
  BY WhenQuiet DEF CacheFresh, Undisturbed, Quiet
<1>2. QED
  BY <1>1, EventsHold, PTL

\* Served one at a time and with no failure, there is no file in storage that
\* no live event refers to, and none at all without the organization.
THEOREM NothingLeaks == Spec => []NoLeakedFiles
<1>1. ASSUME EventsInv, Undisturbed PROVE files \subseteq (IF org THEN ListOrgAssets ELSE {})
  <2>1. \A f \in files : Attached(f)
    BY <1>1, WhenQuiet DEF Undisturbed, Quiet
  <2>2. QED
    BY <2>1 DEF Attached, AssetsOf, ListOrgAssets
<1>2. EventsInv => NoLeakedFiles
  BY <1>1 DEF NoLeakedFiles
<1>3. QED
  BY <1>2, EventsHold, PTL

\* No request, whichever copy of the row it saves, takes an event out of
\* CANCELLED while requests are served one at a time.
THEOREM CancellationIsFinal == Spec => CancelledIsFinal
<1>1. ASSUME EventsInv, [Next]_vars, NEW e \in Ids, serial, rows[e].status = "CANCELLED"
      PROVE  rows'[e].status = "CANCELLED"
  <2>1. CASE UNCHANGED rows
    BY <1>1, <2>1
  <2>2. ASSUME NEW w \in Workers, CommitCreate(w), ~UNCHANGED rows PROVE rows'[e].status = "CANCELLED"
    <3>1. PICK r : r = op[w] /\ r.do = "create"
      BY <2>2 DEF CommitCreate, Doing
    <3>2. rows[r.id].state = "none" /\ r.id \in Ids /\ Typed
      BY <1>1, <3>1, Busy DEF OpTyped, Promise, Resolved
    <3>3. e # r.id
      BY <1>1, <3>2 DEF Typed
    <3>4. PICK n : rows' = [rows EXCEPT ![r.id] = n]
      BY <2>2, <3>1 DEF CommitCreate
    <3>5. QED
      BY <1>1, <3>2, <3>3, <3>4 DEF Typed, TypeOK
  <2>3. ASSUME NEW w \in Workers, CommitSave(w), ~UNCHANGED rows PROVE rows'[e].status = "CANCELLED"
    <3>1. PICK r : r = op[w] /\ r.do = "save"
      BY <2>3 DEF CommitSave, Doing
    <3>2. /\ r.id \in Ids /\ Typed
          /\ rows[r.id].status = "CANCELLED" => r.row.status = "CANCELLED"
      BY <1>1, <3>1, Busy DEF OpTyped, Promise, Resolved
    <3>3. rows' = [rows EXCEPT ![r.id] = r.row]
      BY <2>3, <3>1 DEF CommitSave
    <3>4. QED
      BY <1>1, <3>2, <3>3 DEF Typed, TypeOK
  <2>4. ASSUME NEW w \in Workers, CommitDelete(w) PROVE rows'[e].status = "CANCELLED"
    <3>1. PICK r : r = op[w] /\ r.do = "delete"
      BY <2>4 DEF CommitDelete, Doing
    <3>2. r.id \in Ids /\ rows \in [Ids -> Row] /\ rows[r.id] \in Row
      BY <1>1, <3>1, Busy DEF OpTyped, Typed, TypeOK
    <3>3. PICK n : n = [rows[r.id] EXCEPT !.state = IF @ = "live" THEN "deleted" ELSE @]
      OBVIOUS
    <3>4. rows' = [rows EXCEPT ![r.id] = n]
      BY <2>4, <3>1, <3>2, <3>3 DEF CommitDelete
    <3>5. n.status = rows[r.id].status
      BY <3>2, <3>3 DEF Row
    <3>6. QED
      BY <1>1, <3>2, <3>4, <3>5
  <2>5. ASSUME NEW w \in Workers, Begin(w) PROVE UNCHANGED rows
    BY <2>5 DEF Begin, CreateEvent, UpdateEvent, Publish, Unpublish, Cancel, Transition, DeleteEvent, SetCover,
            GetPublicEvent, AddGalleryImages, UploadFails, DeleteOrg, Edit, Start, tables
  <2>6. ASSUME NEW w \in Workers, Proceed(w) PROVE rows'[e].status = "CANCELLED"
    <3>1. CASE \/ CommitImages(w) \/ CleanAssets(w) \/ CommitDeleteOrg(w)
               \/ CleanUp(w) \/ Answer(w) \/ FillCache(w)
      BY <2>1, <3>1 DEF CommitImages, CleanAssets, CommitDeleteOrg, CleanUp, Answer, FillCache, tables
    <3>2. QED
      BY <2>1, <2>2, <2>3, <2>4, <2>6, <3>1 DEF Proceed
  <2>7. ASSUME NEW w \in Workers, CommitFails(w) \/ CleanUpFails(w) \/ RemovalFails(w) \/ DeleteOrgFails(w)
        PROVE  UNCHANGED rows
    BY <2>7 DEF CommitFails, CleanUpFails, RemovalFails, DeleteOrgFails, tables
  <2>8. ASSUME NEW d \in Ids, Expire(d) PROVE UNCHANGED rows
    BY <2>8 DEF Expire, tables
  <2>9. CASE UNCHANGED vars
    BY <2>1, <2>9 DEF vars, tables
  <2>10. QED
    BY <1>1, <2>1, <2>5, <2>6, <2>7, <2>8, <2>9 DEF Next
<1>2. EventsInv /\ [Next]_vars =>
          \A e \in Ids : (serial /\ rows[e].status = "CANCELLED") => rows'[e].status = "CANCELLED"
  BY <1>1
<1>3. QED
  BY <1>2, EventsHold, PTL DEF Spec, CancelledIsFinal
=============================================================================
