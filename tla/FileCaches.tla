----------------------------- MODULE FileCaches -----------------------------
(***************************************************************************)
(* The caches of StaticFileController and TemplateCache over files that     *)
(* change while they are served.                                           *)
(*                                                                         *)
(* A QCache is a sequence of entries, the least recently used first; it     *)
(* owns its entries and deletes what it drops.  An entry is an object with  *)
(* an address, a file's content is its version, 0 for a file that is not    *)
(* there.                                                                  *)
(***************************************************************************)
EXTENDS HandlerThread, SequencesExt

CONSTANTS
    Pages,              \* paths of static files
    Templates,          \* the names getTemplate tries, in turn
    Cost,               \* the size of each file
    CacheSize,          \* setting cacheSize, of both caches
    MaxCachedFileSize,  \* setting maxCachedFileSize
    CacheTime,          \* setting cacheTime, of both caches
    Addresses           \* bound of the model: entries allocated at a time

Files == Pages \cup Range(Templates)

ASSUME CacheAssumption ==
    /\ Cost \in [Files -> Nat]
    /\ CacheSize \in Nat /\ MaxCachedFileSize \in Nat /\ CacheTime \in Nat

\* A template is looked for under its plain name at last.
ASSUME TemplatesAssumption == Templates \in Seq(Range(Templates)) /\ Templates # <<>>

VARIABLES
    version,        \* the content of each file
    changed,        \* when it last changed
    pageCache, templateCache,
    path,           \* the file a thread deals with
    now,            \* the time it read when it began
    document,       \* the content it read, or served
    entry,          \* the address of the template entry it found
    try             \* the template name it tries

fileVars == <<version, changed, pageCache, templateCache, path, now, document, entry, try>>

NoEntry == "none"

Entries == [file : Files, content : Nat, created : Nat, address : Addresses]

SomeFile == CHOOSE f \in Files : TRUE

\* The state of a process that has just begun.
NoCaches ==
    /\ pageCache = <<>> /\ templateCache = <<>>
    /\ path = [t \in Threads |-> SomeFile]
    /\ now = [t \in Threads |-> 0] /\ document = [t \in Threads |-> 0]
    /\ entry = [t \in Threads |-> NoEntry] /\ try = [t \in Threads |-> 0]

CachesGone ==
    /\ pageCache' = <<>> /\ templateCache' = <<>>
    /\ path' = [t \in Threads |-> SomeFile]
    /\ now' = [t \in Threads |-> 0] /\ document' = [t \in Threads |-> 0]
    /\ entry' = [t \in Threads |-> NoEntry] /\ try' = [t \in Threads |-> 0]

FilesInit ==
    /\ version \in [Files -> {0, 1}] /\ changed = [f \in Files |-> 0]
    /\ NoCaches

\* Somebody writes a file.
EditFile(f) ==
    /\ Work /\ version[f] < 2
    /\ version' = [version EXCEPT ![f] = @ + 1]
    /\ changed' = [changed EXCEPT ![f] = clock]
    /\ UNCHANGED <<at, clock, pageCache, templateCache, path, now, document, entry, try>>

-----------------------------------------------------------------------------
(* QCache.                                                                 *)

Size(e) == IF e.content = 0 THEN 0 ELSE Cost[e.file]
TotalCost(cache) == FoldSeq(LAMBDA e, sum : sum + Size(e), 0, cache)

Holds(cache, f) == \E i \in DOMAIN cache : cache[i].file = f
Place(cache, f) == CHOOSE i \in DOMAIN cache : cache[i].file = f
EntryOf(cache, f) == cache[Place(cache, f)]
Other(cache, f) ==
    IF Holds(cache, f) THEN RemoveAt(cache, Place(cache, f)) ELSE cache

\* object() makes the entry the one used last.
Used(cache, f) ==
    IF Holds(cache, f) THEN Append(Other(cache, f), EntryOf(cache, f)) ELSE cache

\* insert() replaces an entry of the same key, drops entries until the new one
\* fits or none is left, and drops the new one if it never will.
Trimmed(cache, room) ==
    LET from(i) == SubSeq(cache, i, Len(cache))
        fits == {i \in 1 .. Len(cache) : TotalCost(from(i)) <= room}
    IN  from(Min(fits \cup {Len(cache) + 1}))

Inserted(cache, e) ==
    LET others == Other(cache, e.file) IN
    IF Size(e) > CacheSize THEN others
    ELSE Append(Trimmed(others, CacheSize - Size(e)), e)

Fresh(e, time) == CacheTime = 0 \/ e.created + CacheTime > time

\* A new object lies where no other is: it may be where one was that a thread
\* still has a pointer to.
New(address) == \A i \in DOMAIN templateCache : templateCache[i].address # address

-----------------------------------------------------------------------------
(* StaticFileController::service in thread t.                              *)

\* The clock is read before the mutex is taken.
ServePage(t, f) ==
    /\ Enters(t, "page")
    /\ path' = [path EXCEPT ![t] = f] /\ now' = [now EXCEPT ![t] = clock]
    /\ UNCHANGED <<version, changed, pageCache, templateCache, document, entry, try>>

CachedPage(t) == Holds(pageCache, path[t]) /\ Fresh(EntryOf(pageCache, path[t]), now[t])

\* The document is copied before the mutex is released.
PageHit(t) ==
    /\ Goes(t, "page", "pageServed")
    /\ CachedPage(t)
    /\ pageCache' = Used(pageCache, path[t])
    /\ document' = [document EXCEPT ![t] = EntryOf(pageCache, path[t]).content]
    /\ UNCHANGED <<version, changed, templateCache, path, now, entry, try>>

PageMiss(t) ==
    /\ Goes(t, "page", "opening")
    /\ ~CachedPage(t)
    /\ pageCache' = Used(pageCache, path[t])
    /\ UNCHANGED <<version, changed, templateCache, path, now, document, entry, try>>

\* The file is read without the mutex.  404, and files too large for the cache,
\* are served at once.  The file is there whole: reads that fail half way are
\* left out.
ReadPage(t) ==
    /\ Goes(t, "opening", IF version[path[t]] = 0 \/ Cost[path[t]] > MaxCachedFileSize
                          THEN "pageServed" ELSE "storing")
    /\ document' = [document EXCEPT ![t] = version[path[t]]]
    /\ UNCHANGED <<version, changed, pageCache, templateCache, path, now, entry, try>>

\* The file cannot be opened: 403.
ForbiddenPage(t) ==
    /\ Goes(t, "opening", "idle")
    /\ UNCHANGED fileVars

\* Mutant: the entry is stamped when it is stored.
StorePageLate(t) ==
    /\ Goes(t, "storing", "pageServed")
    /\ pageCache' = Inserted(pageCache,
            [file |-> path[t], content |-> document[t], created |-> clock,
             address |-> CHOOSE a \in Addresses : TRUE])
    /\ UNCHANGED <<version, changed, templateCache, path, now, document, entry, try>>

\* The entry is as old as the request, not as its insertion.
StorePage(t) ==
    /\ Goes(t, "storing", "pageServed")
    /\ pageCache' = Inserted(pageCache,
            [file |-> path[t], content |-> document[t], created |-> now[t],
             address |-> CHOOSE a \in Addresses : TRUE])
    /\ UNCHANGED <<version, changed, templateCache, path, now, document, entry, try>>

PageServed(t) ==
    /\ Goes(t, "pageServed", "idle")
    /\ document' = [document EXCEPT ![t] = 0] /\ now' = [now EXCEPT ![t] = 0]
    /\ path' = [path EXCEPT ![t] = SomeFile]
    /\ UNCHANGED <<version, changed, pageCache, templateCache, entry, try>>

-----------------------------------------------------------------------------
(* TemplateCache: getTemplate tries the names of the locales in turn, each  *)
(* with tryFile.                                                           *)

GetTemplate(t) ==
    /\ Enters(t, "template")
    /\ try' = [try EXCEPT ![t] = 1] /\ now' = [now EXCEPT ![t] = clock]
    /\ UNCHANGED <<version, changed, pageCache, templateCache, path, document, entry>>

Name(t) == Templates[try[t]]
CachedTemplate(t) ==
    Holds(templateCache, Name(t)) /\ Fresh(EntryOf(templateCache, Name(t)), now[t])

\* A pointer to the entry is all that is kept over the unlock.
TemplateHit(t) ==
    /\ Goes(t, "template", "found")
    /\ CachedTemplate(t)
    /\ templateCache' = Used(templateCache, Name(t))
    /\ entry' = [entry EXCEPT ![t] = EntryOf(templateCache, Name(t)).address]
    /\ UNCHANGED <<version, changed, pageCache, path, now, document, try>>

\* The file is read under the mutex, and stored even if there is none, or it
\* cannot be read.
TemplateMiss(t, address) ==
    /\ Goes(t, "template", "found")
    /\ ~CachedTemplate(t) /\ New(address)
    /\ \E content \in {version[Name(t)], 0} :
        templateCache' = Inserted(templateCache,
            [file |-> Name(t), content |-> content, created |-> now[t], address |-> address])
    /\ entry' = [entry EXCEPT ![t] = address]
    /\ UNCHANGED <<version, changed, pageCache, path, now, document, try>>

EntryAlive(address) ==
    \E i \in DOMAIN templateCache : templateCache[i].address = address

\* return entry->document: of the entry that lies there now, if one does, and
\* anything if none does.
ReadDocument(t, content) ==
    /\ EntryAlive(entry[t]) =>
        \E i \in DOMAIN templateCache :
            templateCache[i].address = entry[t] /\ templateCache[i].content = content
    /\ entry' = [entry EXCEPT ![t] = NoEntry]
    /\ UNCHANGED <<version, changed, pageCache, templateCache, path, document>>

\* An empty document, and the next name is tried.
NextTemplate(t) ==
    /\ Goes(t, "found", "template")
    /\ ReadDocument(t, 0) /\ try[t] < Len(Templates)
    /\ try' = [try EXCEPT ![t] = @ + 1] /\ now' = [now EXCEPT ![t] = clock]

\* A template, or the end of the names.
TemplateDone(t) ==
    /\ Goes(t, "found", "idle")
    /\ \E content \in 0 .. 2 :
        ReadDocument(t, content) /\ (content = 0 => try[t] = Len(Templates))
    /\ try' = [try EXCEPT ![t] = 0] /\ now' = [now EXCEPT ![t] = 0]

-----------------------------------------------------------------------------

Caches ==
    \/ \E t \in Threads :
        \/ \E f \in Pages : ServePage(t, f)
        \/ PageHit(t) \/ PageMiss(t) \/ ReadPage(t) \/ ForbiddenPage(t) \/ StorePage(t)
        \/ PageServed(t)
        \/ GetTemplate(t) \/ TemplateHit(t)
        \/ \E address \in Addresses : TemplateMiss(t, address)
        \/ NextTemplate(t) \/ TemplateDone(t)
    \/ \E f \in Files : EditFile(f)

\* A content of a file is no older than cacheTime, for somebody who read the
\* time when he asked for it.
NotTooOld(file, content, time) ==
    content # version[file] => changed[file] + CacheTime > time

\* A page a client gets is the file's content of cacheTime ago or newer, however
\* long a thread takes between reading the file and storing it.  So is what lies
\* where a thread will look for the template it found, if that is an entry of
\* this template, the one it found or a later one.  It need not be: an entry of
\* another template may have been made there since.
ServedIsRecent ==
    \A t \in Threads :
        /\ at[t] = "pageServed" /\ CacheTime > 0 => NotTooOld(path[t], document[t], now[t])
        /\ at[t] = "found" /\ CacheTime > 0 => \A i \in DOMAIN templateCache :
            LET e == templateCache[i] IN
            e.address = entry[t] /\ e.file = Name(t) =>
                e.content = 0 \/ NotTooOld(e.file, e.content, now[t])

=============================================================================
