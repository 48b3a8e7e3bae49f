# TLA+ models of TiddlyWikiD

TiddlyWikiD is a small Go server for TiddlyWiki: one page, a JSON API for its
tiddlers, sessions, uploaded attachments, and two interchangeable stores. This
directory holds TLA+ models of the parts of it where several goroutines, two
databases, a crash or a network can get in each other's way, the TLC
configurations that check them, and TLAPS proofs of what holds for any number
of titles, files, goroutines, browsers and tokens.

All modules are translated from the Go and JavaScript sources; `PROJECT.json`
names, for each definition, the lines it stands for. To check a model or a
proof:

    tlc -config WikiFiles.cfg MCWikiFiles
    tlapm BitcaskStoreProofs.tla

Contents: [the system](#the-system) · [modules](#the-modules) ·
[runs](#what-the-runs-check) · [bounds and fairness](#bounds) ·
[divergences](#where-code-and-documents-disagree) · [proofs](#proofs) ·
[not modelled](#what-is-not-modelled) · [plan](#plan)

## The system

### Components

| component | source | state | operations |
|---|---|---|---|
| Store interface | `store/store.go` | tiddlers, and what a `Del` hands back | `Put`, `Get`, `Del`, `List`, `AttachAttachment`, `Close` |
| Listing cache | `store/store.go` `ListCacheState` | dirty flag, cached full listing (two atomics) | `IsDirty`, `FlagDirty`, `Set`, `Build` |
| Bitcask store | `store/store_bitcask.go` | two databases on disk: tiddlers, reference counts of attachments; one RWMutex | the interface, `Merge` |
| In-memory store | `store/store_mem.go` | map of `memTiddler`s, map of reference counts, one RWMutex | the interface, `Load`, `Dump` (JSON file) |
| Session store | `session/*.go` | map token -> session, each session with its expiry time and values; RWMutex each | `GetOrRenew`, `NewToken`, `Destroy`, cleaner goroutine |
| HTTP handlers | `api.go`, `attachment.go` | the directory of uploaded files; three cookies in the browser: session, CSRF token, first load | status, list, get/put/delete tiddler, upload, file, login, logout |
| Low precision clock | `utils/utils.go` | the time, set by a goroutine | `Now` |
| Access control | `auth/*.go` | users, allow and block lists, replaced when the file is loaded | `Load`, `ACL.Check`, `Login` |
| Server, configuration reload | `cmd/main.go` | the current handler in an `atomic.Value` | build handler, watch file, swap; start, shut down |
| Attachments plugin | `plugin.js` | tiddlers in the browser, an upload in progress | upload on import: placeholder, then reference or error |
| Routing, compression, generated tiddlers | `mux.go`, `gzip.go`, `auto_generated_*.go` | none that outlives a request | |

### How they interact

* A handler first calls `checkAuth`, which looks up, times out or renews the
  session of the request's cookie; then it calls the store. `login` and `logout`
  create and destroy sessions. The cleaner goroutine of the session store works on
  the same map. Two cookies of the browser, the session token and the CSRF token,
  mirror server state and travel with every request and answer.
* `PUT` calls `Store.Put`. Upload saves a file, calls `Put` and then
  `AttachAttachment`. `DELETE` calls `Del`, and removes the file whose name `Del`
  hands back, after the store's lock has been released.
* `List` of either store goes through the listing cache. The cache's flag and
  value are NOT protected by the store's lock; only the snapshot is.
* The page asks for the status and then for the listing. The status says what the
  user may do and sets a cookie that makes the next listing a full one; the listing
  resets it. From then on the page polls slim listings, loads what has
  another revision, and saves and deletes what its user changes, all with the
  third-party syncer of TiddlyWiki. The plugin uploads beside it.
* The watcher goroutine of `cmd/main.go` reads the user and access file and swaps
  the handler, with everything behind it, while requests are being served.

### What is hard about it

* In-memory `Put` updates an existing tiddler *under the read lock*: concurrent
  `Put`s, `Get`s and listings read and write the words of the same structure.
* Between `RUnlock` and `Lock` in `Put`, and between every two calls of
  `GetOrRenew` and the cleaner, anything may happen.
* The bitcask store writes two databases one after the other. Either write can
  fail, and the process may be killed between them.
* Reference counts are maintained by `Put` only for new titles, so what they are
  worth depends on a sequence of earlier calls.
* Publishing a listing and resetting the flag are two steps, long after the
  snapshot.
* Answers of parallel requests arrive in any order or not at all.
* The watcher compares the file with a baseline taken after it was loaded.
* The in-memory store is written to its file only by an orderly shutdown, and the file is
  truncated first; the errors of writing and reading it are ignored.
* The tabs of a browser share the first-load cookie, and a configuration may change
  between a status and what follows it.
* An upload and the syncer's PUTs of the same tiddler (placeholder, result) reach the server in
  any order, and each may be answered, lost, or answered and not stored.

### What makes each component correct

| component | properties |
|---|---|
| Store interface | operations are atomic; revisions of a title count one by one; a skinny tiddler (sent without text) keeps the old text; a file handed back for removal is bound to no tiddler |
| Listing cache | a cached listing is current or due for a rebuild; every listing is answered |
| Bitcask store | counts are never too low (files would be removed too early) and, where possible, never too high (files would stay for ever), through failures and crashes; it implements the interface |
| In-memory store | stored tiddlers and answers are consistent, revisions unique and growing, updates are never made to a detached tiddler; the text last sent is the one that is stored, through skinny updates and restarts; 304 is said only of what the browser has; counts and listing as above |
| Sessions | a logged-out session never returns; a session leaves the map only by logout or timeout; no one can use a session that has no user yet; the browser's CSRF token is the session's; an expired session is removed |
| Page load | the first listing has the texts; what the status said about rights holds while handler and user stay |
| Attachments plugin | an upload that was answered and saved is bound, counted and in the directory; the revision tells a tab of every change |
| Configuration reload | the handler always stems from a file that loads; an edit is applied in the end |

The full list of hazards, each at its line and with the properties that guard
it, is in `PROJECT.json`.

## The modules

    Tiddlers        tiddlers, the effect of a Put on one        store.go, putExist
      TiddlerStore    abstract: what Store promises             store.go
      BitcaskStore    both EXTEND Tiddlers and ListCache        store_bitcask.go
        WikiFiles       uploads, PUTs, DELETEs                  api.go
          UploadPlugin    a tab: plugin, syncer, other client   plugin.js
      MemStore                                                  store_mem.go
        MemServer       load, serve, shut down, dump, kill      store_mem.go, main.go
    ListCache       the flag, the value and the listers         store.go, List()
    MemSession      session map, expiry, cleaner, clock         session/, utils/
      WikiSession     requests and cookies                      api.go
    ConfigWatch     the watcher and the handler                 cmd/main.go
      PageLoad        status, listing, rights, in two tabs      api.go, auth/
    ListCacheProofs                                             lemmas for both stores
      BitcaskStoreProofs, MemStoreProofs                        theorems
        WikiFilesProofs, MemServerProofs                        theorems
          UploadPluginProofs                                    theorems
    WikiSessionProofs, PageLoadProofs                           theorems
    MC<module>                                                  definitions for TLC

An indented module EXTENDS the one above it; the actions of that one are steps of
its own, with the variables it adds.

Every module is a state machine in the usual form; variables and actions keep
the names of the fields and functions they model. Lines `Mutant of X` mark
plausible wrong versions of an action. They are not part of any specification;
`PROJECT.json` pairs each property with one that breaks it, as evidence that the
property can fail.

**Tiddlers.** A tiddler is its revision, its text and its attachment. Metadata and
hash are functions of the arguments of the `Put` and of the revision, so the
revision stands for them; `Updated` is `putExist`.

**TiddlerStore.** The interface as a state machine with atomic operations. `Del`
and the decision whether to hand its attachment back are two steps
(`unbound`), because the deletion is visible before the answer. A step may also
withhold the attachment: a file that is never removed is a leak, not a wrong
answer. Restarts leave the map alone.

**ListCache.** Every goroutine inside `List(ap, true)` is a `lister` at one of the
statements *call, build, store, clear, serve*. `CallList` is the compare-and-swap
of `IsDirty`, `BuildList` the snapshot under the store's read lock, `StoreCached`
and `ClearDirty` the two atomics of `Set`, `ServeList` is `Build` with its fallback
when nothing has been cached. A store extends the module, calls `FlagDirty`
where its code does and passes its listing to `BuildList`. The history variable
`raced` records that the store changed between a snapshot and the reset of the flag;
the next undisturbed snapshot clears it.

**BitcaskStore.** The sections under `s.mx.Lock` exclude each other, but each
writes to two databases, so a section is one action per write
(`PutBegin -> PutRef -> PutStore`, `DelStore -> DelRef`, `AttachRef ->
AttachStore`) and `cs` is the section in progress. A write happens or fails
(`Faults`), the write of the count inside `Put` included, whose error the code
ignores; `Restart` kills the process between any two
writes. The bitcask library is external: a write is assumed atomic and to
survive the process, and a read of it does not fail. Any PUT may name any attachment.
Three history variables say what became of it: `owned`, the files a title was bound to
since it was created; `leaked`, the files whose count was left too high because an
update took them off a title or a write was lost; and `uncounted`, the files that a `Put`
bound to an existing title that did not own them, which the code does not count, or whose
count it could not write. What the properties say of counts, they say of the files outside
`uncounted`, in every behaviour: no client and no fault is assumed away.

**WikiFiles.** PUT, DELETE and upload as concurrent handlers, with the directory
of files (`disk`). The critical sections of `BitcaskStore` are used as they are and
given to the handler that runs them; between them are the steps of the handler itself:
`SaveFile` (the copy or the metadata may fail, the file stays), `UploadPut`,
`UploadAttach`, and after `Del` has answered, `RemoveFile`, outside the lock. `Kill` drops
all handlers and keeps the directory. A PUT may name any file: one that was attached once
(`known`), gone by now or not, or one that nobody has uploaded (`invented`). Only a name that an
upload has drawn and no client has been told is out of reach, as it has 96 random bits. The
histories `doomed`, `late` and `abandoned` name the files whose removal was decided, those that
a PUT bound after that, and those that a handler left behind when it failed or was killed.

**MemStore.** Under the read lock an update is one action per word that it writes:
size and data of the strings `meta`, `text` and `file`, the hash, and the atomic
revision. This is the granularity at which the unsynchronised writes
of the code can be observed on the machines Go runs on; `Whole` says that a string is
not torn. `Get` reads field by field. Sections under `Lock` cannot fail and exclude
everyone (`Exclusive`), so each is one action. A listing is taken at one
moment and shows of each tiddler the revision its meta holds. A meta that is half
written may not be decoded: a `Get` then answers "not found" (`GetFails`), and a listing leaves
the tiddler out, any or none of those in `Torn`. History variables `mixed` (the last
updates of a title overlapped), `rebound` (an update has bound a file without
counting it) and `skipped` (the titles the listing last built left out) name the circumstances
under which the code promises less.

`sent` is the text the clients last sent for a title, which a skinny update must keep. A `Get` also
stands for its ETag (`Etag`): revision and hash.

**MemServer.** The life of a server with the in-memory store. `Load` runs at the start,
over whatever the file holds; a file that is missing, truncated or damaged is
`NoDump`, and `main` goes on with an empty store. The shutdown waits for requests
(`Drained`), truncates (`Truncate`) and writes (`WriteDump`); `Kill` comes at any time. A process's
end and the next one's start are one step. `safe` is what the last complete dump
should bring back. `Decoded` skips a tiddler whose metadata is torn, and reads the name of a
file as it stands; counts are made anew by `Load`, from the tiddlers in the file.

**MemSession, WikiSession.** Each lock section of the session store is one action.
A request goes through *lookup, check, drop | renew | guest, acc, csrf, verify,
destroy, answer*, so that everything `GetOrRenew` reads may be stale when it is used.
Handlers are grouped by their effect on sessions: `page` renews and rotates the
CSRF token, `file` only renews. `jar` is a browser's cookies: sent with
a request, changed when its answer is delivered. A browser has any number of requests under way,
whose answers come in any order or never. Two histories tell when it may have lost track of its
CSRF token: `crowded`, the requests that were under way together with another one of their browser,
and `adrift`, the browsers that sent such requests, or lost an answer with a token, and have not
loaded a page or logged in by itself since. A token is never drawn twice (144
random bits), CSRF tokens are numbered for the same reason.

**ConfigWatch.** The file has a content and a `stat` (size and modification time,
different after each edit); the watcher goroutine goes through *build, baseline,
poll*. An editor that writes in pieces is an edit to `Broken` followed by one to a
valid content.

**PageLoad.** Two tabs of one browser over the handler that `ConfigWatch` swaps. A
tab sends a status, a listing, a PUT or a login (`Send`), is served by the handler of that
moment (`Status`, `List`, `Put`, `Login`; `NotReady` before the first configuration
loads), and gets its answer or loses it (`Deliver`, `Lose`). A section
that the file leaves out is a nil ACL; asking it panics, which
closes the connection (`Panics`). `Check` is `ACL.Check`: a block beats an allow, an allow the
default; prefixes are sets of addresses. `told` is what the last status said, forgotten
when handler or user change; `listing` tells the first listing after a status from those
that poll.

**UploadPlugin.** One title in one tab. The plugin's `Import` shows a placeholder and sends the
upload; `Uploaded` replaces the placeholder by a tiddler that refers to the file, or by an
error. The syncer is TiddlyWiki's, delivered in `cmd/index.html` (line 178, `syncer.js`) with
its adaptor for this server (line 186, `tiddlywebadaptor.js`), third-party code that is
modelled as the server meets it: one task at a time (`StartTask`,
`FinishTask`), a listing that is polled (`Poll`, `Polled`), and revisions as the
only thing it compares. A tiddler that was saved a second ago has to wait, and a load may go first.
A deletion sends no DELETE if the tiddler's bag is not known, which a listing does not tell
(`api.go:432` fills it in for a GET only). `edited` and `touched` are its change counts.
The path under which the plugin refers to a file is the server's `/files/`, as the plugin is shipped
(`auto_generated_plugin.go:54`); with another one, `plugin.js`'s own default `/` included, the
final tiddler's PUT names no file and takes the attachment off the tiddler. The server's side is
`WikiFiles`, with `Serve...` actions that tie a request of the tab to a handler.
Another client overwrites or deletes the tiddler. Histories: `sure` in a version the syncer
knows (it was stored, and the title has not been created anew since), `finished` (the
file of the last upload that was answered, until somebody changes the tiddler) and `gone` (files
attached before a deletion).

## What the runs check

| run | configuration | checked |
|---|---|---|
| `bitcask_list` | 2 listers, 1 title, 1 file; all writes may fail, kills | types; `FreshUnlessRaced`; `ListAnswered` (liveness) |
| `wiki_files` | 2 uploads or DELETEs, and PUTs of any file; 2 titles, 2 files; all writes may fail, kills | types; but for files in `uncounted`: `RefsCover`: counts are never too low; `RefsExact`: and exact unless `leaked`; `HandedIsUnbound`: no bound file is handed back; `FilesPresent`: a bound file is in the directory, unless `late` or `invented`; for all files: `NoOrphans`: one in the directory is in use, in work, `leaked` or `abandoned`; `ImplementsInterface`: refinement of `TiddlerStore` |
| `mem_updates` | 2 Puts, a Get and a lister, 1 title | types; `ConsistentUnlessMixed`, `GetConsistent`, `RevsDistinct`, `RevisionsGrow`, `UpdatesAttached`; `LastSentIsStored`: skinny updates keep the text; `NotModifiedIsRight`: a 304 is true; `TitlesFreshUnlessRaced`: the listing lacks no title but one it met half written |
| `mem_restart` | 1 Put, 2 titles, 1 file; dumps, failed dumps, kills | types; `LastSentIsStored`, `ConsistentUnlessMixed`: through a dump and a load; `RefsCover`, `HandedIsUnbound`: with counts made anew |
| `session_safe` | 2 parallel requests, cleaner, lost and reordered answers | types; `LoggedOutStaysOut`, `KeptUnlessTimedOut`, `CookieHasUser`; `CsrfAgrees`: a browser that is idle, and not `adrift`, holds its session's token |
| `session_expiry` | a browser with one request at a time, a clock of 4 moments | `ExpiredIsRemoved` (liveness) |
| `page_load` | 2 tabs, 2 configurations, broken or missing file, 2 edits; failures, lost answers, logins and logouts | types; `FirstListingIsFull`; `StatusHolds`; `NoticedIsApplied` (liveness) |
| `upload_plugin` | a tab, 1 title, 1 file, another client; failing writes; 2 mishaps | types; `RevisionTellsText`; `UploadIsStored` |
| `bitcask_rebind`, `mem_stale_listing`, `session_swept`, `config_missed` | | one property each that the sources promise and TLC refutes, see below |

What they show, beyond the names:

* *Order of writes.* `Put` and `AttachAttachment` count before they store, `Del`
  discounts after it deletes. `RefsCover` is the reason this order is right: a crash
  in between leaves a count too high (a file stays), never too low (a file goes while
  it is used).
* *Double check in `Put`.* The in-memory `Put` looks the title up again after
  it has traded the read lock for the lock; a `Put` that made a new tiddler there all
  the same would break `RevisionsGrow`. The atomic increment, not the lock, is what keeps
  `RevsDistinct`. `UpdatesAttached` is why writing to the `memTiddler` under the read
  lock does not lose an update to a concurrent `Del`.
* *Renewal outside the map's lock.* A request may renew a session that a logout has
  just deleted. It stays out only because `Renew` touches the session and not the map.
* *Files.* Removing a file after the lock has been released is safe for every tiddler
  that had it, if it was counted: when `Del` hands it back nobody owns it (`RefsCover`), and an
  upload attaches only files of its own. What can still go wrong is a PUT that names the file
  after that (`late`), or one that was not counted (`uncounted`). `NoOrphans` holds for those too: a
  count that is too low removes a file early, but never keeps it. It is the account of the directory:
  files stay for
  ever only where the count leaked or a handler stopped half way.
* *Cache.* With the flag outside the lock, a change between snapshot and reset is lost
  (`raced`). Otherwise the cached listing is right, whatever two listers do, and
  the fallback loop of `Build` ends. The in-memory store adds one more way to lose a title:
  a snapshot that meets it half written skips it, and since an update flags nothing the published
  listing stays like that (`skipped`).
* *CSRF token.* A browser whose requests overlap, or whose answer is lost, may be left with an old
  token, and its logout is refused. The state repairs itself: the first page it loads alone, whatever
  happened before, brings it back in step, and what one browser does never disturbs another.
* *Shutdown.* `Dump` finds no torn tiddler because `srv.Shutdown` has waited for the requests;
  without that (`Interrupted`) a restart would bring back half an update. What a kill costs is
  everything since the last dump, or everything if it comes while the file is truncated:
  `sent` then restarts from `safe`, which is the exact statement of that loss.
* *304.* Revision and hash are different words, written at different moments, and the
  browser compares both. A hash of the metadata alone would let a 304 stand for
  another text.
* *Page load.* The cookie makes the first listing full however requests fail: a lost
  listing leaves it set, a second status does not need to set it. A reload of the
  configuration cannot make a status and the listing after it disagree, except by
  changing the handler, which is the only thing `StatusHolds` forgets for.
* *Upload.* The placeholder's PUT may be stored before the upload's own `Put`, between it and
  `AttachAttachment`, or after both, when it takes the file off the tiddler again. It is
  always the final tiddler's PUT that binds it for good, and since an update
  counts nothing the count is 1 in every order.

### Exemptions that properties carry

Some properties hold only outside circumstances that the code does allow. They are
histories in the properties, so that they can be read off; no constant excludes them from
the runs or from the theorems:

| exemption | what happens there |
|---|---|
| `uncounted` | a PUT binds an existing title to a file it did not own: not counted (`store_bitcask.go:167`), run `bitcask_rebind`; or `Put` goes on although it could not write the count (`store_bitcask.go:168`, marked TODO). A later `Del` of another title may hand the file back while it is bound |
| `rebound` | the same in the in-memory store (`store_mem.go:214`), until a restart counts anew |
| `invented` | a PUT names a file that nobody has uploaded (`api.go:516`): it is bound and counted, and not in the directory |
| `raced` | a change between a listing's snapshot and `Set`'s reset of the flag stays hidden until the next change (`store.go:95`) |
| `skipped` | the listing met a meta half written and left the tiddler out (`store_mem.go:96`): it is missing from the cached listing until a title is created or deleted |
| `mixed` | two updates of a title overlap: its meta, text and hash may stem from different updates, or be torn (`store_mem.go:207`); so may the answer of a `Get` that an update overlaps (`get[r].over`). A skinny update can also write back a text that was replaced meanwhile |
| `crowded`, `adrift` | of two parallel answers, the later one may carry the older CSRF token, and a lost one takes the new token with it; the next logout is then refused (`api.go:240`), until a page alone has brought the token back |
| `timedOut` in `KeptUnlessTimedOut` | a session that was once found timed out may be removed although it was renewed since; run `session_swept` |
| `over`, `mixed` in `NotModifiedIsRight` | an answer made up of two versions has an ETag of neither |
| `safe` | changes since the last complete dump are lost by a kill; all are, if the dump fails or is killed, or if the file cannot be read at the start (`store_mem.go:358`, `main.go:96`) |
| `listing = "shared"` | the other tab's listing took the cookie of both: this tab's first listing is slim, and it loads tiddlers one by one (`api.go:838`) |
| a nil `edit` section in `StatusHolds` | a logged-in user is told that editing is permitted, since the status does not ask the section then, and the PUT panics (`auth_acl.go:127`, `api.go:171`) |
| `told` forgotten | after a logout, a timeout or a reload the tab shows rights it has lost until its next status; a listing is then an empty one, not an error, and the syncer deletes its tiddlers (`api.go:359`) |
| `sure = FALSE` | a PUT was answered and not stored (`store_bitcask.go:173`), or the title was deleted and created anew and counts from 1 again: the tab may hold another text of the same revision and never learn |
| `finished` reset | the syncer's listing, asked before, arrives after the upload was answered: its skinny version takes the place of the plugin's tiddler, which is never saved. The file stays attached and the reference is lost from the tiddler |
| `finished = NoFile` | a form that is too large or broken is answered with an empty 200 (`api.go:587`): the plugin drops the text for a path to nothing |
| `gone` | the tiddler was deleted after its file was attached; the plugin's PUT binds it again, as `late` |
| `leaked` | an update that drops or replaces an attachment does not discount the old one: its file is never removed (`store_bitcask.go:232`) |
| `late` | a client that still shows a deleted tiddler saves it again: the tiddler is stored and its file is gone, or removed a moment later (`api.go:555`) |
| `abandoned` | an upload whose metadata is bad, whose tiddler was deleted before it could be attached, or which was killed, leaves its file; so does a failed `os.Remove` (`api.go:625`, `636`, `555`) |

### Bounds

The bounds are guards on actions that would count on for ever; they are constants,
and no invariant mentions them except the type invariants of the
session and configuration modules.

| bound | limits | enough because |
|---|---|---|
| `MaxRev` | revisions of one title (`Put`) | 2 gives create and update, 3 two overlapping updates; a delete starts over |
| `MaxRef` | the value of a count | more than the titles that can share a file, or as many: the last and the last but one reference, and one too many after a crash, occur |
| `MaxTime`, `TTL` | ticks of the clock | `TTL` = 1, so a session expires, is renewed after ticks, and expires again |
| `MaxCsrf` | CSRF tokens drawn | login and two rotations, in parallel or one after the other; 4 in `session_expiry` add a second login |
| `FewMishaps` | a constraint of `wiki_files`: at most one file is `invented` or `uncounted`, and at most one `leaked` or `abandoned` | each kind of mishap meets a file that it hits and another one that it does not; both may hit the same file |
| `MaxEdits` | edits of the file | 2 in `page_load`: broken or removed, and valid again; `config_missed` needs one |
| `MaxMishaps` | in `UploadPlugin`: losses, kills, reloads of the page, deletions, other saves, unreadable forms | 2: any two of them in one upload, such as a lost answer and a change by the other client; failing writes of the server are not counted |
| `ReadersApart` | a constraint of `mem_updates`: the getter and the lister do not both act in one behaviour | neither changes anything the other reads, so a violation of a property of one needs no step of the other |

Two titles and two files show a file shared by two titles and one that is replaced
by another; two Puts, two listers or two requests show every pair of
interleavings, and no code compares more than two goroutines' values. The proofs
remove these limits for what they cover.

Symmetry is used in the runs that check invariants, step properties and a
refinement, whose formulas treat titles, files and actors alike; not in
those with liveness.

### Fairness

* `BitcaskStore!FairSpec`: a section that holds the lock runs on (weak); a lister
  outside the lock runs on (weak); a lister that waits for the read lock gets it, as
  Go's `RWMutex` lets waiting readers in when a writer leaves (strong, since the lock is
  taken again and again).
* `WikiSession!FairSpec`: only the cleaner, whose ticker keeps firing. Requests need none,
  and the clock may stop.
* `ConfigWatch!FairSpec` and `PageLoad!PageSpec`: the watcher, which sleeps two seconds at
  most. Nobody has to edit anything, and no tab to do anything.

Deadlock is checked everywhere but in `config_missed`, where nothing has to happen once
the last edit is applied.

## Where code and documents disagree

| run | property | what TLC shows |
|---|---|---|
| `bitcask_rebind` | `HandedIsNeverBound` | Title A has the file. A PUT names it for the existing title B: not counted, as B is not new. `Del` of A brings the count to 0 and hands the file back for removal while B is bound to it. `store.go:32` binds removal to the tiddler's deletion. |
| `mem_stale_listing` | `ClearMeansCurrent` | After a listing has been cached, a `Put` updates an existing title under `RLock` and returns without `FlagDirty`. The flag says clear (`store.go:76`: "1 for dirty, 0 for clear"), the listing has the old revision. The bitcask store does flag it. |
| `session_swept` | `LiveIsKept` | The cleaner lists an expired session and releases the lock, or a request found it expired. A second request, which read the clock earlier, renews it for another 15 minutes; then it is deleted. |
| `config_missed` | `Reloads` | The file is edited after it was read and before its baseline is taken (for later rounds the code sleeps two seconds there): the edit is the baseline and is never loaded. The same for a file that did not exist when the server started. `src/README.md` lists "auto reload config" as done. |

## Proofs

TLAPS checks the theorems below for every value of the constants. The bounds are
ordinary constants there, so nothing is assumed about their size.

**`ListCacheProofs`** has the lemmas about the listing cache that both stores use. Each takes as
`FreshIn(C)` that, unless raced, the cached listing, and whatever a lister has built and
published, is among the listings `C` that are current. `FreshFlagged` and `FreshSame` are the
two kinds of step of a store: flagged and noted, or not visible in a listing; `FreshListStep` is a step
of a lister. `CacheFresh` of the bitcask store and `TitlesFresh` of the in-memory store are their
instances. In the former `C` is *the* listing. In the latter it is any listing with the titles of the
store but for some in `skipped`, since an update does not flag it, and a snapshot may skip titles in
the middle of one.

**`BitcaskStoreProofs`**

| theorem | property |
|---|---|
| `TypeCorrect` | `TypeOK` |
| `RefsSufficient` | `RefsCover` |
| `CountsExact` | `RefsExact` |
| `HandedSafe` | `HandedIsUnbound` |
| `CacheFresh` | `FreshUnlessRaced` |
| `Implements` | `ImplementsInterface` |

None of them assumes anything of the clients or of the faults: what a PUT did not count is in the
history `uncounted`, and the formulas are about the files outside it.

The argument: `Basics` is `TypeOK` together with `SectionOK`, which says what the
critical section in progress has computed from a store nobody else can change
meanwhile. `RefInv` adds `OwnedOK` (a stored file is among the files its title owned),
`CreditOK` (which file is counted one ahead in which step) and `RefsCover`.
`RefsCover` is about the files outside `uncounted`, which only grows (`Grows`), as `leaked` does. `RefsCover` alone is not inductive: at `DelRef` one must know that the credit of the
deleted title is still in the count. The lemmas `CoverKept` (owners do not grow,
count minus credit does not fall) and `CoverPaid` (a stored title uses up the
credit) are the two ways in which a step keeps it. `ExactInv` adds the bound from the other
side, `CountsBounded`, for files that have not leaked, counted or not (an uncounted reference makes the
count lower, never higher), with `OwnedIsBound` (a title that once
owned such a file is still bound to it) and `FreshCredit` (a file being counted is new
to its title); `BoundKept`, `BoundPaid` and `BoundOwed` are the three ways of a step.
`HandInv` adds
`HandedIsUnbound`: a count of 1 in `DelRef` is the credit alone (`LastReference`), so nobody
owns the file. The refinement maps `unbound` to the file of a deletion whose count is not yet
written. `PutStore`, `DelStore`, `DelRef` and `AttachStore` map to the abstract
operations, everything else to a stutter or to `Withhold`; a file in `uncounted` that is handed back
counts as none (`Counted`), since the interface promises that such a file is bound to nothing. That the
exemption is needed is what `bitcask_rebind` shows.

`CacheInv`, for `CacheFresh`, is `Basics` and `FreshIn` of the listing of the database.

**`WikiFilesProofs`**

| theorem | property |
|---|---|
| `WikiTypeCorrect` | `WikiTypeOK` |
| `WikiUsesStore` | `WikiSpec => Spec`, the bitcask store's |
| `BoundFilesPresent` | `FilesPresent` |
| `NoFileOrphaned` | `NoOrphans` |

`FileInv`: a file being uploaded is in the directory, in one upload only, and
unknown to clients (`UploadOK`); a section of the store belongs to one handler (`OwnerOK`); a file
that clients know is in the directory until `Del` has handed it back, and what a tiddler is bound to is
known to clients or invented by them (`KnownOK`). It gives the
step-by-step refinement `WikiUsesStore`, by which every theorem of `BitcaskStoreProofs` holds
behind the handlers. `FilesPresent` follows from `KnownOK` with `DoomedOK`: a stored tiddler has a
doomed file only if it was bound late or not counted. Its induction step is `HandedIsUnbound`.

`NoOrphans` is not inductive: when `Del` does not hand a file back, one has to know that another title
is bound to it, and for an uncounted file the count does not say so. `Referenced` does not mention
titles: a file in the directory is *counted*, or in the hands of a handler, or given up. It is inductive
by itself, since `Del` hands back every file whose count it takes to 0. The upper bound of
`ExactInv`, which holds for uncounted files too, then says that a file that is counted is
bound (`CountedIsBound`).

**`MemStoreProofs`**

| theorem | property |
|---|---|
| `TypeCorrect` | `TypeOK` |
| `NoDetachedUpdate` | `UpdatesAttached` |
| `RevisionsOnlyGrow` | `RevisionsGrow` |
| `RevisionsDiffer` | `RevsDistinct` |
| `RefsSufficient`, `HandedSafe` | `RefsCover`, `HandedIsUnbound` |
| `StoredConsistent`, `LastSentStored` | `ConsistentUnlessMixed`, `LastSentIsStored` |
| `AnswerConsistent`, `NotModifiedRight` | `GetConsistent`, `NotModifiedIsRight` |
| `TitlesFresh` | `TitlesFreshUnlessRaced` |

No assumption beyond those on the constants: `rebound` and `mixed` are histories, not constants. An
update writes its words one by one, so all proofs rest on one description of a step: `Writes` gives the
tiddler after it, word by word, `Moves` the goroutine, and `SomeTiddler` and `SomePut` say
which words each program location may have changed.

* `Basics` is `TypeOK` with what a `Put` or `Get` holds while it has the read lock: its title is in the map.
  `UpdatesAttached` is part of it, as `Del` needs `Exclusive`.
* `RefInv` adds `OwnedOK`, that both halves of a (perhaps torn) file name stem from files the title
  was bound to. `RefsCover` is then a fact about sets of owners.
* `UpdateInv` describes a half-written tiddler: for every update of a title that has not been
  overlapped, which words are those of the update already and which still are the old ones (`Alone`,
  from `MetaWritten`, `TextWritten`, `HashWritten`), and for a title at rest that all agree (`Settled`).
* `GetInv` adds what a `Get` has read so far (`ReadSoFar`): unless overlapped, the fields it has read
  are those of the stored tiddler. `NotModifiedIsRight` then needs only that the hash is injective
  in the text of one revision.

**`MemServerProofs`**

| theorem | property, over `ServerSpec` |
|---|---|
| `ServerTypeCorrect` | `ServerTypeOK` |
| `RestartKeepsText`, `RestartKeepsHash` | `LastSentIsStored`, `ConsistentUnlessMixed` |
| `RestartCounts`, `RestartHandsBack` | `RefsCover`, `HandedIsUnbound` |

`ServerInv` is `RefInv` and `UpdateInv` of the running store, with `DumpOK`, the same about the
file as far as `safe` promises it, and `Waited`: nobody is inside the store while it is
dumped. `Load` then establishes both invariants from the file alone.

**`WikiSessionProofs`**

| theorem | property |
|---|---|
| `TypeCorrect` | `TypeOK` |
| `LoggedOut` | `LoggedOutStaysOut` |
| `Kept` | `KeptUnlessTimedOut` |
| `Named` | `CookieHasUser` |
| `CsrfHeld` | `CsrfAgrees` |

The inductive invariant `Inv` is the
shape of the variables, the three properties, `TokensOK` (sessions in the map, listed by
the cleaner or destroyed were drawn; what the cleaner is about to delete was
found timed out) and `RequestOK` for each request: the token it carries past the
lookup was drawn, one that it will drop was found timed out, and a token it brings
back or has in its answer belongs to a session with a user. `Moves` and `GoesTo` reduce a
step of one request to what changes for that request. `LimitInv`
counts what the requests under way may still draw, which bounds the tokens of `TypeOK`.

`CsrfHeld` holds for parallel requests, lost and reordered answers. `CsrfInv` adds to `Inv` that no two
browsers hold the same session token, in the jar, in a request or in an answer (`Apart`); what an answer
can carry at each stage (`Staged`); that a crowded request belongs to a browser adrift; and, for each
request that is not crowded, `ByItself`: it is the only one of its browser (`Alone`), and
what the jar would hold after its answer (`After`) agrees with the session in the map, provided that
it brings a token or the browser was not adrift before. That is what lets a page repair a browser that was: the
session's token and the answer's are set in the same step, and nobody else has the session
(`OthersAgree`). `CsrfMoves` is the step of one request, `CsrfStays` one that touches none,
`CsrfSend` and `CsrfEnds` are where a browser comes to be adrift and where it no longer is.

**`PageLoadProofs`**

| theorem | property |
|---|---|
| `PageTypeCorrect` | `PageTypeOK` |
| `FirstListingFull` | `FirstListingIsFull` |
| `StatusIsKept` | `StatusHolds` |

For any number of tabs, configurations and edits. `CookieOK` follows the cookie of a tab whose first
listing is to come: in the browser, on its way there, or with the request for the listing.
`ToldOK` says that what a tab was told is what the handler of this moment would tell the user;
`Forget` empties it whenever one of the two changes.

**`UploadPluginProofs`**

| theorem | property, over `PluginSpec` |
|---|---|
| `PluginTypeCorrect` | `PluginTypeOK` |
| `PluginUsesHandlers` | `WikiSpec`, that of the handlers |
| `RevisionTells` | `RevisionTellsText` |
| `UploadStored` | `UploadIsStored` |

The tab's own PUTs name only the file their text refers to, which was uploaded (`invented` is empty in
the invariant), so none of the exemptions of the bitcask store is needed. `PluginUsesHandlers` is the
refinement by which `FileInv` and the theorems of `WikiFilesProofs` hold under the
plugin; `Served` lists the steps of the server that the plugin, the syncer and the other client use.

* `ViewsInv` adds to `FileInv` that there is one title and one upload at a time (`OneTitle`)
  and that every version the tab is sure of, in `info`, in a task or in an answer on its way, is
  older than the stored tiddler or has its text (`ViewOK`). Such a version stays so while the
  stored tiddler only counts on (`Later`, `ViewKept`); the creation of the title puts all of them in doubt.
* `Attached`: a file attached since the last deletion of the title is counted once and in the directory.
* `FetchOK`: the answer on its way names a file that was attached, and the upload is over.
* `SeenOK`: a text in the tab, in a request or in the store refers only to files that
  clients know, and not to the one whose answer is on its way. So `Uploaded` shows a
  reference that exists nowhere else.
* `PutOf` says whose PUT the section in progress is, and that the syncer's names the file of its text.
* `KeptOK` follows the upload from its answer: the next PUT carries the reference, no deletion is
  on its way, and wherever the tab holds the reference as the *server's* version, it is what is stored.
  `UploadIsStored` alone is not inductive: it says nothing while the tab's text
  is unsaved, nor of what is on its way then. `KeptPut` is the step that needs all the parts.

Assumed of the constants, in the modules that declare them: model values that stand for "none"
are no members of the sets they are added to (`TiddlersAssumption`, `MemAssumption`,
`ServerAssumption`, `SessionAssumption`, `WikiSessionAssumption`, `PluginAssumption`), sets whose size is counted are finite, and
bounds are natural numbers. TLC evaluates all of them.

Only model-checked:

* the liveness properties `ListAnswered`, `ExpiredIsRemoved` and `NoticedIsApplied`, which are
  out of the prover's reach;
* what the four runs that end with a violation show.

## What is not modelled

* The title inside a dumped tiddler's metadata: it is taken to be its key, as the wiki's
  clients send it.
* Reads of the bitcask library that fail, or return what cannot be decoded. The store takes them for
  a key that is not there: `Put` would start at revision 1 again and count the attachment once
  more (`store_bitcask.go:130`, `159`), `attachRef` would start from 0 (`store_bitcask.go:294`). That a read does
  not fail is the assumption on the library, beside atomic writes.
* The texts in a listing of the in-memory store that is taken while a text is half written; a
  listing is told by revisions, as the syncer reads it.
* The slim listing (`List(ap, false)`), which keeps no state; the 32 MB cut-off of a
  full one, which depends on bytes.
* `Get` of the bitcask store, a read under the lock, and `Merge`, which only
  compacts. `New`, `Len` of the session store, which the program does not call, and
  `Close`, which only tests do.
* The access list for files (`checkAuthStatic`), which works as the other two; the time after
  which the browser drops a cookie.
* Several uploads of one title at a time, and requests that are served after the tab has given
  them up, except an upload in progress.
* The rest of the base page, beyond its syncer and adaptor; password hashing, cookies' attributes, TLS,
  routing, compression and generated tiddlers: library calls, or functions of one request.

## Plan

Modelled so far, in this order: the stores, on which everything else rests; the
sessions, which run concurrently with every request; the watcher; the handlers over a
store; the life of the in-memory store; the page load; the plugin. What is left to
model:

1. `PageLoad` with the session cookies of `WikiSession`, for a login that races with a timeout.
2. Read errors of the bitcask library, with a history for the counts they reset, as `uncounted` is one
   for the writes.
