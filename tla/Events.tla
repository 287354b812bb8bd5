------------------------------- MODULE Events -------------------------------
(***************************************************************************)
(* One organization's events: their rows, cover and gallery files, and the *)
(* cache of public payloads.                                               *)
(*                                                                         *)
(* Every writer reads the row, checks and changes its copy (one step, with *)
(* the upload where there is one), saves the WHOLE copy in a transaction   *)
(* (a second step) and then deletes files and purges the cache, best       *)
(* effort (op[w].todo, one step each).  Only the deletion of the           *)
(* organization removes its files before its transaction.  GetPublicEvent  *)
(* reads on a miss and fills the cache in a later step.  Requests that     *)
(* fail a check change nothing and are not steps.                          *)
(*                                                                         *)
(* The variable serial is chosen once: TRUE serves one request at a time.  *)
(***************************************************************************)
EXTENDS Integers, FiniteSets, Sequences

CONSTANTS
    Ids,            \* event ids
    Titles,         \* what an update may change besides slug and cover
    Slugs,          \* 1..n: a base slug, then the base with -2, -3, ...
    Workers,        \* concurrent requests
    EventLimits,    \* the quotas a plan may grant of events that are not cancelled
    MaxRequests,    \* bound: requests ever served, one at a time
    MaxRacing,      \* bound: requests ever served when they overlap
    MaxUploads,     \* bound: files ever stored
    MaxFaults       \* bound: writes, deletes and purges that fail

ASSUME EventsAssumption ==
    /\ IsFiniteSet(Ids) /\ Ids # {} /\ Titles # {}
    /\ IsFiniteSet(Slugs) /\ Slugs # {} /\ Slugs = 1..Cardinality(Slugs)
    /\ EventLimits \subseteq Nat /\ MaxRequests \in Nat /\ MaxRacing \in Nat
    /\ MaxUploads \in Nat /\ MaxFaults \in Nat

VARIABLES
    org,        \* TRUE until the organization is deleted
    rows,       \* table events; deleted rows keep their slug
    gallery,    \* table event_images: <<event, file>>
    files,      \* files in storage, numbered as they are stored
    cleaned,    \* history: files that deletions of the organization removed
    uploads,    \* number of files ever stored
    cache,      \* Redis: the public payload of each event
    op,         \* op[w]: what request w does next
    served,     \* number of requests begun
    faults,     \* number of failures so far
    serial      \* the deployment, see above

tables == <<org, rows, gallery>>
vars == <<tables, files, cleaned, uploads, cache, op, served, faults, serial>>

Statuses == {"DRAFT", "PUBLISHED", "CANCELLED"}
NoFile == 0
Attempts == 4

Row == [state: {"none", "live", "deleted"}, status: Statuses,
        title: Titles, slug: Slugs, cover: 0..MaxUploads]

\* The cached part of a row.
PayloadOf(row) == [title |-> row.title, cover |-> row.cover]

\* publicEventTTL: one minute.  An entry stored with TTL 0 never expires.
PublicEventTTL == 1
NoEntry == [kind |-> "none"]
Entry(row, ttl) == [kind |-> "hit", body |-> PayloadOf(row), ttl |-> ttl]

Live(e) == rows[e].state = "live"
Published(e) == Live(e) /\ rows[e].status = "PUBLISHED"
LiveSlugs == {rows[e].slug : e \in {x \in Ids : Live(x)}}
Images(e) == {f \in 1..uploads : <<e, f>> \in gallery}
CoverOf(e) == {rows[e].cover} \ {NoFile}

Idle(w) == op[w].do = "idle"
Doing(w, what) == op[w].do = what
Hold(w, next) == op' = [op EXCEPT ![w] = next]

Start(w, next) ==
    /\ Idle(w)
    /\ serial => \A v \in Workers : Idle(v)
    /\ served < IF serial THEN MaxRequests ELSE MaxRacing
    /\ served' = served + 1
    /\ Hold(w, next)
    /\ UNCHANGED <<tables, cache, faults, serial>>

\* What follows the transaction.
After(w, e, todo) == Hold(w, [do |-> "after", id |-> e, todo |-> todo])
Purge == [k |-> "purge", files |-> {}]
Drop(fs) == [k |-> "drop", files |-> fs]

(***************************************************************************)
(* Create                                                                  *)
(***************************************************************************)
CountActiveByOrg == Cardinality({e \in Ids : Live(e) /\ rows[e].status # "CANCELLED"})

\* The first candidate that no live event uses.
UniqueSlug == CHOOSE n \in Slugs \ LiveSlugs : \A k \in Slugs \ LiveSlugs : n <= k

\* A new event under a fresh id, within the quota of the plan of the moment;
\* slug 0 asks for one derived from the title.
CreateEvent(w, e, t, slug) ==
    /\ org /\ rows[e].state = "none"
    /\ \A v \in Workers : ~(Doing(v, "create") /\ op[v].id = e)
    /\ \E limit \in EventLimits : CountActiveByOrg < limit
    /\ slug = 0 => Slugs \ LiveSlugs # {}
    /\ Start(w, [do |-> "create", id |-> e, title |-> t, auto |-> slug = 0, tries |-> 1,
                 slug |-> IF slug = 0 THEN UniqueSlug ELSE slug])
    /\ UNCHANGED <<files, cleaned, uploads>>

\* UNIQUE (organization_id, slug) spans deleted rows too.
SlugTaken(e, slug) == \E x \in Ids \ {e} : rows[x].state # "none" /\ rows[x].slug = slug

CommitCreate(w) ==
    /\ Doing(w, "create")
    /\ LET r == op[w] IN
        \/ /\ ~SlugTaken(r.id, r.slug)
           /\ rows' = [rows EXCEPT ![r.id] = [state |-> "live", status |-> "DRAFT", title |-> r.title,
                                              slug |-> r.slug, cover |-> NoFile]]
           /\ Hold(w, [do |-> "idle"])
        \/ /\ SlugTaken(r.id, r.slug) /\ r.auto /\ r.tries < Attempts
           /\ Slugs \ LiveSlugs # {}
           /\ Hold(w, [r EXCEPT !.tries = @ + 1, !.slug = UniqueSlug])
           /\ UNCHANGED rows
        \/ /\ SlugTaken(r.id, r.slug) /\ (r.auto => r.tries = Attempts \/ Slugs = LiveSlugs)
           /\ Hold(w, [do |-> "idle"])
           /\ UNCHANGED rows
    /\ UNCHANGED <<org, gallery, files, cleaned, uploads, cache, served, faults, serial>>

(***************************************************************************)
(* Update and lifecycle                                                    *)
(***************************************************************************)
\* A writer of event e holds its changed copy, the gallery rows to insert
\* (their files are stored), and what is to be done once it has committed.
\* (resolveOrg, resolveEvent: neither the organization nor e is deleted.)
Saving(e, row, imgs, todo) ==
    [do |-> "save", id |-> e, row |-> row, imgs |-> imgs, new |-> {}, todo |-> todo]

Edit(w, e, row, todo) ==
    /\ org /\ Live(e)
    /\ Start(w, Saving(e, row, {}, todo))
    /\ UNCHANGED <<files, cleaned, uploads>>

\* Mutant: a cleared cover's file is deleted before the row is saved.
ClearsFirst(w, e, t, slug, clearCover) ==
    LET row == [rows[e] EXCEPT !.title = t, !.slug = slug] IN
    /\ org /\ Live(e)
    /\ Start(w, Saving(e, IF clearCover THEN [row EXCEPT !.cover = NoFile] ELSE row, {}, <<Purge>>))
    /\ files' = IF clearCover THEN files \ CoverOf(e) ELSE files
    /\ UNCHANGED <<cleaned, uploads>>

\* The old cover's file goes after the commit, before the purge.
UpdateEvent(w, e, t, slug, clearCover) ==
    LET row == [rows[e] EXCEPT !.title = t, !.slug = slug] IN
    \/ ~clearCover /\ Edit(w, e, row, <<Purge>>)
    \/ clearCover /\ Edit(w, e, [row EXCEPT !.cover = NoFile], <<Drop(CoverOf(e)), Purge>>)

\* Mutant: anything but a published event can be published.
FromUnpublished(e) == rows[e].status # "PUBLISHED"

MayPublish(e) == rows[e].status = "DRAFT"

\* The announcements are queued in the transaction.
Publish(w, e) ==
    /\ MayPublish(e)
    /\ Edit(w, e, [rows[e] EXCEPT !.status = "PUBLISHED"], <<Purge>>)

\* Mutant: a transition forgets the cache.
UnpurgedTransition(w, e, from, to) ==
    /\ rows[e].status = from
    /\ Edit(w, e, [rows[e] EXCEPT !.status = to], <<>>)

Transition(w, e, from, to) ==
    /\ rows[e].status = from
    /\ Edit(w, e, [rows[e] EXCEPT !.status = to], <<Purge>>)

Unpublish(w, e) == Transition(w, e, "PUBLISHED", "DRAFT")
Cancel(w, e) == Transition(w, e, "PUBLISHED", "CANCELLED")

\* The assets are listed before the transaction.
DeleteEvent(w, e) ==
    /\ org /\ Live(e)
    /\ Start(w, [do |-> "delete", id |-> e, todo |-> <<Purge, Drop(CoverOf(e) \cup Images(e))>>])
    /\ UNCHANGED <<files, cleaned, uploads>>

\* A soft delete: gallery rows and slug stay.
CommitDelete(w) ==
    /\ Doing(w, "delete")
    /\ rows' = [rows EXCEPT ![op[w].id].state = IF @ = "live" THEN "deleted" ELSE @]
    /\ After(w, op[w].id, op[w].todo)
    /\ UNCHANGED <<org, gallery, files, cleaned, uploads, cache, served, faults, serial>>

(***************************************************************************)
(* Covers and gallery                                                      *)
(***************************************************************************)
NewFiles(n) == (uploads + 1)..(uploads + n)

\* storage.SaveImage, n times, under names never used before.
StoreFiles(n) ==
    /\ uploads + n <= MaxUploads
    /\ uploads' = uploads + n
    /\ files' = files \cup NewFiles(n)
    /\ UNCHANGED cleaned

\* Mutant: the replaced cover's file stays.
SetCoverKeepsOld(w, e) ==
    /\ org /\ Live(e)
    /\ StoreFiles(1)
    /\ Start(w, [Saving(e, [rows[e] EXCEPT !.cover = uploads + 1], {}, <<Purge>>)
                 EXCEPT !.new = NewFiles(1)])

SetCover(w, e) ==
    /\ org /\ Live(e)
    /\ StoreFiles(1)
    /\ Start(w, [Saving(e, [rows[e] EXCEPT !.cover = uploads + 1], {}, <<Drop(CoverOf(e)), Purge>>)
                 EXCEPT !.new = NewFiles(1)])

\* Without a cover, the first image becomes it: row and cover share the file.
AddGalleryImages(w, e, n) ==
    /\ org /\ Live(e)
    /\ StoreFiles(n)
    /\ LET cloned == rows[e].cover = NoFile IN
        Start(w, IF cloned
                 THEN [Saving(e, [rows[e] EXCEPT !.cover = uploads + 1], NewFiles(n), <<Purge>>)
                       EXCEPT !.new = NewFiles(n)]
                 ELSE [do |-> "images", id |-> e, imgs |-> NewFiles(n), new |-> NewFiles(n), todo |-> <<>>])

\* An upload fails: cleanupStaged deletes the files before it.
UploadFails(w, e, n) ==
    /\ org /\ Live(e)
    /\ StoreFiles(n)
    /\ Start(w, [do |-> "after", id |-> e, todo |-> <<Drop(NewFiles(n))>>])

\* UpdateEvent of the repository: Save writes every column of the copy, and
\* inserts the row again if a delete hid it.
CommitSave(w) ==
    /\ Doing(w, "save")
    /\ LET r == op[w] IN
        \/ /\ ~SlugTaken(r.id, r.row.slug)
           /\ rows' = [rows EXCEPT ![r.id] = r.row]
           /\ gallery' = gallery \cup ({r.id} \X r.imgs)
           /\ After(w, r.id, r.todo)
        \/ /\ SlugTaken(r.id, r.row.slug)
           /\ After(w, r.id, <<Drop(r.new)>>)
           /\ UNCHANGED <<rows, gallery>>
    /\ UNCHANGED <<org, files, cleaned, uploads, cache, served, faults, serial>>

CommitImages(w) ==
    /\ Doing(w, "images")
    /\ gallery' = gallery \cup ({op[w].id} \X op[w].imgs)
    /\ After(w, op[w].id, <<>>)
    /\ UNCHANGED <<org, rows, files, cleaned, uploads, cache, served, faults, serial>>

\* The transaction fails: the uploads are cleaned up.
CommitFails(w) ==
    /\ op[w].do \in {"save", "images"}
    /\ faults < MaxFaults /\ faults' = faults + 1
    /\ After(w, op[w].id, <<Drop(op[w].new)>>)
    /\ UNCHANGED <<tables, files, cleaned, uploads, cache, served, serial>>

(***************************************************************************)
(* After the transaction                                                   *)
(***************************************************************************)
NextOp(w) == Head(op[w].todo)

\* deleteCover and purgePublicEvent.
CleanUp(w) ==
    /\ Doing(w, "after") /\ op[w].todo # <<>>
    /\ files' = files \ NextOp(w).files
    /\ cache' = IF NextOp(w).k = "purge" THEN [cache EXCEPT ![op[w].id] = NoEntry] ELSE cache
    /\ op' = [op EXCEPT ![w].todo = Tail(@)]
    /\ UNCHANGED <<tables, cleaned, uploads, served, faults, serial>>

\* One of them fails and is logged, or the process dies.
CleanUpFails(w) ==
    /\ Doing(w, "after") /\ op[w].todo # <<>>
    /\ faults < MaxFaults /\ faults' = faults + 1
    /\ \/ op' = [op EXCEPT ![w].todo = Tail(@)]
       \/ Hold(w, [do |-> "idle"])
    /\ UNCHANGED <<tables, files, cleaned, uploads, cache, served, serial>>

Answer(w) ==
    /\ Doing(w, "after") /\ op[w].todo = <<>>
    /\ Hold(w, [do |-> "idle"])
    /\ UNCHANGED <<tables, files, cleaned, uploads, cache, served, faults, serial>>

(***************************************************************************)
(* The organization's end (OrgService.DeleteOrg with its asset cleaner)    *)
(***************************************************************************)
ListOrgAssets == UNION {CoverOf(e) \cup Images(e) : e \in {x \in Ids : Live(x)}}

\* "Assets first (orphan rows self-heal; orphan files cost money)": they are
\* listed, removed and only then does the transaction follow.
DeleteOrg(w) ==
    /\ org
    /\ Start(w, [do |-> "deleteOrg", todo |-> <<Drop(ListOrgAssets)>>])
    /\ UNCHANGED <<files, cleaned, uploads>>

\* The files that go are remembered in cleaned.
Remove(fs) ==
    /\ files' = files \ fs
    /\ cleaned' = cleaned \cup (files \cap fs)

CleanAssets(w) ==
    /\ Doing(w, "deleteOrg") /\ op[w].todo # <<>>
    /\ Remove(NextOp(w).files)
    /\ Hold(w, [op[w] EXCEPT !.todo = Tail(@)])
    /\ UNCHANGED <<tables, uploads, cache, served, faults, serial>>

\* The listing fails or some of the files stay, which is logged and does not
\* stop the request; or the process dies.
RemovalFails(w) ==
    /\ Doing(w, "deleteOrg") /\ op[w].todo # <<>>
    /\ faults < MaxFaults /\ faults' = faults + 1
    /\ \E fs \in SUBSET NextOp(w).files : Remove(fs)
    /\ \/ Hold(w, [op[w] EXCEPT !.todo = Tail(@)])
       \/ Hold(w, [do |-> "idle"])
    /\ UNCHANGED <<tables, uploads, cache, served, serial>>

\* Events stay as they are; without the organization no route resolves them.
CommitDeleteOrg(w) ==
    /\ Doing(w, "deleteOrg") /\ op[w].todo = <<>>
    /\ org' = FALSE
    /\ Hold(w, [do |-> "idle"])
    /\ UNCHANGED <<rows, gallery, files, cleaned, uploads, cache, served, faults, serial>>

\* The transaction fails: the organization stays, its files do not come back.
DeleteOrgFails(w) ==
    /\ Doing(w, "deleteOrg") /\ op[w].todo = <<>>
    /\ faults < MaxFaults /\ faults' = faults + 1
    /\ Hold(w, [do |-> "idle"])
    /\ UNCHANGED <<tables, files, cleaned, uploads, cache, served, serial>>

(***************************************************************************)
(* Public reads                                                            *)
(***************************************************************************)
\* A hit is served as it is; a miss reads the row and holds its payload.
GetPublicEvent(w, e) ==
    /\ cache[e] = NoEntry /\ Published(e)
    /\ Start(w, [do |-> "fill", id |-> e, row |-> rows[e]])
    /\ UNCHANGED <<files, cleaned, uploads>>

\* Mutant: stored without a TTL.
FillForever(w) ==
    /\ Doing(w, "fill")
    /\ cache' = [cache EXCEPT ![op[w].id] = Entry(op[w].row, 0)]
    /\ Hold(w, [do |-> "idle"])
    /\ UNCHANGED <<tables, files, cleaned, uploads, served, faults, serial>>

FillCache(w) ==
    /\ Doing(w, "fill")
    /\ cache' = [cache EXCEPT ![op[w].id] = Entry(op[w].row, PublicEventTTL)]
    /\ Hold(w, [do |-> "idle"])
    /\ UNCHANGED <<tables, files, cleaned, uploads, served, faults, serial>>

\* Redis: a minute has passed since the entry was stored.
Expire(e) ==
    /\ cache[e] # NoEntry /\ cache[e].ttl > 0
    /\ cache' = [cache EXCEPT ![e] = NoEntry]
    /\ UNCHANGED <<tables, files, cleaned, uploads, op, served, faults, serial>>

-----------------------------------------------------------------------------
Init ==
    /\ org = TRUE
    /\ rows = [e \in Ids |-> [state |-> "none", status |-> "DRAFT", title |-> CHOOSE t \in Titles : TRUE,
                              slug |-> 1, cover |-> NoFile]]
    /\ gallery = {} /\ files = {} /\ cleaned = {} /\ uploads = 0
    /\ cache = [e \in Ids |-> NoEntry]
    /\ op = [w \in Workers |-> [do |-> "idle"]]
    /\ served = 0 /\ faults = 0
    /\ serial \in BOOLEAN

Begin(w) ==
    \/ \E e \in Ids, t \in Titles, s \in Slugs \cup {0} : CreateEvent(w, e, t, s)
    \/ \E e \in Ids, t \in Titles, s \in Slugs, clear \in BOOLEAN : UpdateEvent(w, e, t, s, clear)
    \/ \E e \in Ids : \/ Publish(w, e) \/ Unpublish(w, e) \/ Cancel(w, e) \/ DeleteEvent(w, e)
                      \/ SetCover(w, e) \/ GetPublicEvent(w, e)
    \/ \E e \in Ids, n \in 1..2 : AddGalleryImages(w, e, n) \/ UploadFails(w, e, n)
    \/ DeleteOrg(w)

Proceed(w) ==
    \/ CommitCreate(w) \/ CommitSave(w) \/ CommitImages(w) \/ CommitDelete(w)
    \/ CleanAssets(w) \/ CommitDeleteOrg(w)
    \/ CleanUp(w) \/ Answer(w) \/ FillCache(w)

Next ==
    \/ \E w \in Workers : \/ Begin(w) \/ Proceed(w)
                           \/ CommitFails(w) \/ CleanUpFails(w) \/ RemovalFails(w) \/ DeleteOrgFails(w)
    \/ \E e \in Ids : Expire(e)

\* A request that has begun goes on; Redis drops an entry when its TTL is over.
Fairness ==
    /\ \A w \in Workers : WF_vars(Proceed(w))
    /\ \A e \in Ids : WF_vars(Expire(e))

Spec == Init /\ [][Next]_vars /\ Fairness

-----------------------------------------------------------------------------
\* Rows, files, cache entries and requests keep their shape, and a file that
\* is referenced was stored once.
TypeOK ==
    /\ rows \in [Ids -> Row]
    /\ gallery \subseteq Ids \X (1..uploads)
    /\ files \subseteq 1..uploads /\ cleaned \subseteq 1..uploads /\ uploads \in 0..MaxUploads
    /\ \A e \in Ids : rows[e].cover <= uploads
    /\ \A e \in Ids : cache[e] # NoEntry => cache[e].body \in [title: Titles, cover: 0..uploads]
    /\ served \in 0..(MaxRequests + MaxRacing) /\ faults \in 0..MaxFaults

Quiet == \A w \in Workers : Idle(w)
Undisturbed == serial /\ faults = 0 /\ Quiet

Stale(e) == cache[e] # NoEntry /\ ~(Published(e) /\ cache[e].body = PayloadOf(rows[e]))

\* "Called for every mutation that can change what GetPublicEvent serves":
\* served one at a time and with no purge lost, a cached payload is the one
\* the row of a published event gives.
CacheFresh == Undisturbed => \A e \in Ids : ~Stale(e)

\* However reads, writes and lost purges overlap, a stale payload is not
\* served forever: "self-heal via publicEventTTL".
StalePayloadEnds == \A e \in Ids : Stale(e) ~> ~Stale(e)

\* A live event never shows a cover whose file was deleted, in the middle of a
\* request and after a failed one included.  The exception are the files that
\* a deletion of the organization removed before its transaction, which may
\* still come or fail ("Assets first").
CoverStored ==
    (serial /\ org) => \A e \in Ids : Live(e) => CoverOf(e) \subseteq files \cup cleaned

\* Rows, gallery and entries refer to files that were stored, and covers to
\* files that are still there or went with "Assets first".
FilesSound == TypeOK /\ CoverStored

\* Nothing is left in storage that no live event refers to, whatever the order
\* of uploads, replacements, clears and deletes; nothing at all without the
\* organization.
NoLeakedFiles ==
    Undisturbed => files \subseteq (IF org THEN ListOrgAssets ELSE {})

\* "Cancel transitions PUBLISHED -> CANCELLED (terminal)".
CancelledIsFinal ==
    [][\A e \in Ids : (serial /\ rows[e].status = "CANCELLED") => rows'[e].status = "CANCELLED"]_vars
=============================================================================
