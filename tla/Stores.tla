------------------------------ MODULE Stores ------------------------------
(****************************************************************************)
(* The four document stores of internal/storage, chosen when a process      *)
(* starts: in memory (memory.go), one JSON file (file.go), SQLite           *)
(* (sqlite.go) and PostgreSQL (postgres.go); several goroutines of the      *)
(* process call them, and the process may end at any point and start again. *)
(*                                                                          *)
(* The documents of a store are a sequence in the order of their ids.  A    *)
(* document has a body, the tag that stands for the ETag, hash and links    *)
(* that only UpsertDocument writes (0 is none), its source, and the time    *)
(* it expires at.  Left out: the text, ids, times of creation.              *)
(****************************************************************************)
EXTENDS Integers, Sequences, FiniteSets, SequencesExt

CONSTANTS
    Client, Url,
    Ttl,         \* time to live of a document in ticks; 0 is none
    Deployment,  \* how processes choose their store: see Init
    Ops,         \* the operations clients call
    Earlier,     \* the documents an earlier process left in each durable store
    MaxCalls, MaxTime, MaxCrashes,   \* bounds
    Never, None

Files    == {"file", "namedFile"}
Sqlites  == {"sqlite", "namedSqlite", "memorySqlite"}
Sql      == Sqlites \cup {"postgres"}
Volatile == {"memory", "memorySqlite"}
Backend  == {"memory"} \cup Files \cup Sql

Doc == [url : Url, source : Url, body : 0..MaxCalls, tag : 0..MaxCalls,
        expires : (0 - 1)..(MaxTime + 1) \cup {Never}]

ASSUME StoresAssumption ==
    /\ Ttl \subseteq Int /\ 0 \in Ttl /\ None \notin Client \cup Url \cup Backend
    /\ MaxCalls \in Nat /\ MaxTime \in Nat /\ MaxCrashes \in Nat
    /\ Never \in Int /\ Never > MaxTime + 1
    /\ Earlier \in Seq(Doc) /\ \A i, j \in DOMAIN Earlier : Earlier[i].url = Earlier[j].url => i = j

VARIABLES
    deployment,   \* the settings of the process, which do not change
    active,       \* the store of this process: None before it has started
    content,      \* the documents of each store
    columns,      \* whether PostgreSQL has the columns of InitTables
    aliases,      \* the aliases in memory, and the rows of SQLite
    aliasRows,
    call,         \* what each client is doing
    writer,       \* who holds the mutex of the store for writing
    now, crashes, calls,
    faulty        \* history: the stores whose medium has just failed a call

storeVars == <<content, columns, aliases, aliasRows>>
processVars == <<deployment, active, now, crashes, calls>>
vars == <<processVars, storeVars, call, writer, faulty>>

Idle == [op |-> "none", step |-> "idle"]

Init ==
    /\ deployment \in Deployment
    /\ active = None
    /\ content = [b \in Backend |-> IF b \in Volatile THEN << >> ELSE Earlier]
    /\ columns = FALSE
    /\ aliases = [u \in Url |-> None]
    /\ aliasRows = [b \in Sqlites |-> [u \in Url |-> None]]
    /\ call = [c \in Client |-> Idle] /\ writer = None
    /\ now = 0 /\ crashes = 0 /\ calls = 0
    /\ faulty = {}

-----------------------------------------------------------------------------
(* The choice of a store: opens are those that open at this start; a store *)
(* that does not open is replaced by another one.                          *)

\* NewSQLiteStore, by the place its DSN names.
OpenSqlite(place, opens) == IF place \in opens THEN place ELSE None
SqliteOf(url) == CASE url = "" -> "sqlite" [] url = ":memory:" -> "memorySqlite" [] OTHER -> "namedSqlite"

\* NewPostgresStore, after all its attempts.
OpenPostgres(url, opens) == IF url # "" /\ "postgres" \in opens THEN "postgres" ELSE None

\* NewStore: the store, or None for an error.
NewStore(driver, url, opens) ==
    CASE driver = "sqlite"   -> OpenSqlite(SqliteOf(url), opens)
      [] driver = "postgres" -> OpenPostgres(url, opens)
      [] driver = "file"     -> IF url = "" THEN "file" ELSE "namedFile"
      [] driver = "memory"   -> "memory"
      [] OTHER               -> None

Default(opens) == IF "sqlite" \in opens THEN "sqlite" ELSE "file"

NewStoreFromEnv(driver, url, opens) ==
    LET byUrl == CASE url = "sqlite"   -> OpenSqlite("namedSqlite", opens)
                   [] url = "postgres" -> OpenPostgres(url, opens)
                   [] OTHER            -> None
        choices == <<NewStore(driver, url, opens), byUrl, Default(opens)>>
    IN  choices[CHOOSE i \in 1..3 : choices[i] # None /\ \A j \in 1..(i - 1) : choices[j] = None]

\* The services; a URL that is not one of SQLite is taken for PostgreSQL's.
InitDB(driver, url, opens) ==
    LET store == CASE url = "" /\ driver \in {"", "sqlite"} -> OpenSqlite("sqlite", opens)
                   [] url = "" /\ driver \notin {"", "sqlite"} -> None
                   [] url = "sqlite"                         -> OpenSqlite("namedSqlite", opens)
                   [] OTHER                                  -> OpenPostgres(url, opens)
    IN  IF store = None THEN "file" ELSE store

\* loadAliases, whose failure is only logged.
LoadedAliases(b) ==
    {[u \in Url |-> None]} \cup (IF b \in Sqlites THEN {aliasRows[b]} ELSE {})

\* A process starts and sets its global store.
Start ==
    /\ active = None
    /\ \E opens \in SUBSET Sql :
          active' = IF deployment.init = "env"
                    THEN NewStoreFromEnv(deployment.driver, deployment.url, opens)
                    ELSE InitDB(deployment.driver, deployment.url, opens)
    /\ aliases' \in LoadedAliases(active')
    /\ UNCHANGED <<deployment, content, columns, aliasRows, call, writer, now, crashes, calls, faulty>>

-----------------------------------------------------------------------------
(* Operators *)

\* GetAlias: follows the chain; a chain that comes back gives the URL itself.
Follow[current \in Url, visited \in SUBSET Url] ==
    IF current \in visited THEN None
    ELSE IF aliases[current] = None THEN current
    ELSE Follow[aliases[current], visited \cup {current}]
GetAlias(url) == LET end == Follow[url, {}] IN IF end = None THEN url ELSE end

IndexOf(seq, url) == SelectInSeq(seq, LAMBDA d : d.url = url)

\* Mutant: a document is added without a look for its old version.
AppendAlways(seq, d, op, b) == Append(seq, d)

\* Save and UpsertDocument on the documents of store b.  Save leaves the tag of
\* the version it replaces, save in memory, where the document is made anew.
Put(seq, d, op, b) ==
    LET i == IndexOf(seq, d.url)
        tag == IF op = "upsert" THEN d.tag
               ELSE IF i = 0 \/ b = "memory" THEN 0 ELSE seq[i].tag
    IN  IF i = 0 THEN Append(seq, [d EXCEPT !.tag = tag])
                 ELSE [seq EXCEPT ![i] = [d EXCEPT !.tag = tag]]

\* PostgreSQL takes a negative time to live for none.
Expiry(ttl, b) ==
    IF ttl = 0 \/ (b = "postgres" /\ ttl < 0) THEN Never ELSE now + ttl

Alive(d) == d.expires > now

\* What GetByURL may find.  Memory looks by URL, then by alias, and then takes any
\* document of that source; the others take the first that matches, which may be
\* another document of that source.  A document is hidden by SQL at the tick it
\* expires at, by the others after it.
Matches(d, url, canonical) == {d.url, d.source} \cap {url, canonical} # {}
FirstOf(seq) == IF seq = << >> THEN {} ELSE {seq[1]}
FindInMemory(url, canonical) ==
    LET docs == {d \in ToSet(content["memory"]) : d.expires >= now}
        of(name) == {d \in docs : d.url = name}
    IN  CASE of(url) # {}       -> of(url)
          [] of(canonical) # {} /\ of(url) = {} -> of(canonical)
          [] OTHER              -> {d \in docs : d.source \in {url, canonical}}
FindInFile(b, url, canonical) ==
    FirstOf(SelectSeq(content[b], LAMBDA d : d.expires >= now /\ Matches(d, url, canonical)))
FindInSql(b, url, canonical) ==
    FirstOf(SelectSeq(content[b], LAMBDA d : Alive(d) /\ Matches(d, url, canonical)))
\* The columns of InitTables are read too; any error counts as nothing found.
FindInPostgres(url, canonical) ==
    IF columns THEN FindInSql("postgres", url, canonical) ELSE {}

\* List: the documents, or None for an error; SQLite has no OFFSET without LIMIT.
Page(seq, limit, offset) ==
    SubSeq(seq, offset + 1, IF limit > 0 /\ offset + limit < Len(seq) THEN offset + limit ELSE Len(seq))
ListInOrder(b, limit, offset) == Page(SelectSeq(content[b], Alive), limit, offset)
ListSqlite(b, limit, offset) ==
    IF offset > 0 /\ limit <= 0 THEN None ELSE ListInOrder(b, limit, offset)
ListPostgres(limit, offset) ==
    IF columns THEN ListInOrder("postgres", limit, offset) ELSE None

\* The documents of seq that are in kept, in their order: SelectSeq, as a
\* function the provers can unfold.
Keep(seq, kept) ==
    LET upTo[i \in 0..Len(seq)] ==
          IF i = 0 THEN << >>
          ELSE IF seq[i] \in kept THEN Append(upTo[i - 1], seq[i]) ELSE upTo[i - 1]
    IN  upTo[Len(seq)]

Unexpired(seq) == Keep(seq, {d \in ToSet(seq) : Alive(d)})
Without(seq, url) == Keep(seq, {d \in ToSet(seq) : url \notin {d.url, d.source}})

-----------------------------------------------------------------------------
(* Calls *)

Writes == {"save", "upsert"}
CallOf(op, url, other, ttl) ==
    [op |-> op, step |-> "called", url |-> url, other |-> other, ttl |-> ttl,
     body |-> calls + 1, seq |-> << >>, found |-> {}, ok |-> TRUE]

\* A client calls the store.  A document's source is its own URL or another.
Begin(c) ==
    /\ active # None /\ call[c].step = "idle" /\ calls < MaxCalls
    /\ calls' = calls + 1
    /\ \/ \E op \in Ops \cap Writes, url, source \in Url, ttl \in Ttl :
             call' = [call EXCEPT ![c] = CallOf(op, url, source, ttl)]
       \/ \E op \in Ops \cap {"get", "delete"}, url \in Url :
             call' = [call EXCEPT ![c] = CallOf(op, url, url, 0)]
       \/ \E url, canonical \in Url :
             /\ "alias" \in Ops /\ url # canonical
             /\ call' = [call EXCEPT ![c] = CallOf("alias", url, canonical, 0)]
       \/ \E op \in Ops \cap {"list", "expire", "initTables"} :
             call' = [call EXCEPT ![c] = CallOf(op, None, None, 0)]
    /\ UNCHANGED <<deployment, active, now, crashes, storeVars, writer, faulty>>

NewDoc(k) == [url |-> k.url, source |-> k.other, body |-> k.body, tag |-> k.body,
              expires |-> Expiry(k.ttl, active)]

Calling(c, op) == call[c].step = "called" /\ call[c].op = op
Answer(c, ok) == call' = [call EXCEPT ![c].step = "answered", ![c].ok = ok]

\* A context that has ended, or a connection that is down: nothing happens.
\* GetByURL of PostgreSQL hides its error.
Refuse(c) ==
    /\ call[c].step = "called"
    /\ Answer(c, call[c].op = "get" /\ active = "postgres")
    /\ UNCHANGED <<processVars, storeVars, writer, faulty>>

Return(c) ==
    /\ call[c].step = "answered"
    /\ call' = [call EXCEPT ![c] = Idle]
    /\ UNCHANGED <<processVars, storeVars, writer, faulty>>

PutIn(c, b) ==
    /\ call[c].step = "called" /\ call[c].op \in Writes /\ active = b
    /\ content' = [content EXCEPT ![b] = Put(@, NewDoc(call[c]), call[c].op, b)]
    /\ UNCHANGED <<processVars, columns, aliases, aliasRows, writer, faulty>>

WriteMemory(c) == PutIn(c, "memory") /\ Answer(c, TRUE)

WriteSqlite(c) == (\E b \in Sqlites : PutIn(c, b)) /\ Answer(c, TRUE)

\* The answer of a write that was done may be lost.  UpsertDocument needs the
\* columns of InitTables.
WritePostgres(c) ==
    \/ /\ call[c].op = "upsert" => columns
       /\ PutIn(c, "postgres")
       /\ \E ok \in BOOLEAN : Answer(c, ok)
    \/ /\ Calling(c, "upsert") /\ active = "postgres" /\ ~columns
       /\ Answer(c, FALSE)
       /\ UNCHANGED <<processVars, storeVars, writer, faulty>>

ExpireIn(c, b) ==
    /\ Calling(c, "expire") /\ active = b
    /\ content' = [content EXCEPT ![b] = Unexpired(@)]
    /\ UNCHANGED <<processVars, columns, aliases, aliasRows, writer, faulty>>

ExpireMemory(c) == ExpireIn(c, "memory") /\ Answer(c, TRUE)
ExpireSqlite(c) == (\E b \in Sqlites : ExpireIn(c, b)) /\ Answer(c, TRUE)
ExpirePostgres(c) == ExpireIn(c, "postgres") /\ \E ok \in BOOLEAN : Answer(c, ok)

\* DeleteCrawledDocument deletes nothing unless the store is SQLite.
Delete(c) ==
    /\ Calling(c, "delete")
    /\ content' = IF active \in Sqlites
                  THEN [content EXCEPT ![active] = Without(@, call[c].url)] ELSE content
    /\ Answer(c, TRUE)
    /\ UNCHANGED <<processVars, columns, aliases, aliasRows, writer, faulty>>

\* InitTables, which does nothing unless InitDB has left a pool.
InitTables(c) ==
    /\ Calling(c, "initTables")
    /\ columns' = (columns \/ (active = "postgres" /\ deployment.init = "InitDB"))
    /\ Answer(c, TRUE)
    /\ UNCHANGED <<processVars, content, aliases, aliasRows, writer, faulty>>

-----------------------------------------------------------------------------
(* The file: read as a whole under the mutex, and replaced by a temporary one *)

\* loadLocked: a file that cannot be read counts as empty for a write (faulty
\* notes it), and fails DeleteExpired.
Load(c) ==
    /\ active \in Files /\ writer = None
    /\ call[c].step = "called" /\ call[c].op \in Writes
    /\ writer' = c
    /\ \E read \in BOOLEAN :
          LET docs == IF read THEN content[active] ELSE << >>
          IN  /\ call' = [call EXCEPT ![c].step = "loaded",
                            ![c].seq = Put(docs, NewDoc(call[c]), call[c].op, active)]
              /\ faulty' = IF read THEN faulty ELSE faulty \cup {active}
    /\ UNCHANGED <<processVars, storeVars>>

LoadToExpire(c) ==
    /\ active \in Files /\ writer = None
    /\ Calling(c, "expire")
    /\ IF Unexpired(content[active]) = content[active]
       THEN Answer(c, TRUE) /\ UNCHANGED writer
       ELSE /\ writer' = c
            /\ call' = [call EXCEPT ![c].step = "loaded", ![c].seq = Unexpired(content[active])]
    /\ UNCHANGED <<processVars, storeVars, faulty>>

\* atomicWriteFile until its rename: the new file is complete, or the call fails.
WriteTemp(c) ==
    /\ call[c].step = "loaded"
    /\ \/ call' = [call EXCEPT ![c].step = "written"] /\ UNCHANGED <<writer, faulty>>
       \/ /\ Answer(c, FALSE) /\ writer' = None
          /\ faulty' = faulty \ {active}
    /\ UNCHANGED <<processVars, storeVars>>

\* Mutant: the file is rewritten where it is.
RenameInPlace(c) ==
    /\ call[c].step = "written"
    /\ content' = [content EXCEPT ![active] = << >>]
    /\ call' = [call EXCEPT ![c].step = "truncated"]
    /\ UNCHANGED <<processVars, columns, aliases, aliasRows, writer, faulty>>

\* The rename takes place, fails, or finds another device (EXDEV).
Rename(c) ==
    /\ call[c].step = "written"
    /\ \/ /\ content' = [content EXCEPT ![active] = call[c].seq]
          /\ Answer(c, TRUE) /\ writer' = None /\ faulty' = faulty \ {active}
       \/ /\ Answer(c, FALSE) /\ writer' = None /\ faulty' = faulty \ {active}
          /\ UNCHANGED content
       \/ /\ call' = [call EXCEPT ![c].step = "truncate"]
          /\ faulty' = faulty \cup {active}
          /\ UNCHANGED <<content, writer>>
    /\ UNCHANGED <<processVars, columns, aliases, aliasRows>>

\* writeDirectly: a file cut short is read as an empty one.
Truncate(c) ==
    /\ call[c].step = "truncate"
    /\ content' = [content EXCEPT ![active] = << >>]
    /\ call' = [call EXCEPT ![c].step = "truncated"]
    /\ UNCHANGED <<processVars, columns, aliases, aliasRows, writer, faulty>>

WriteDirectly(c) ==
    /\ call[c].step = "truncated"
    /\ \E ok \in BOOLEAN :
          /\ content' = IF ok THEN [content EXCEPT ![active] = call[c].seq] ELSE content
          /\ Answer(c, ok)
    /\ writer' = None /\ faulty' = faulty \ {active}
    /\ UNCHANGED <<processVars, columns, aliases, aliasRows>>

-----------------------------------------------------------------------------
(* Reading, and aliases *)

\* GetByURL resolves the alias first, under a mutex of its own.
Resolve(c) ==
    /\ Calling(c, "get")
    /\ call' = [call EXCEPT ![c].step = "resolved", ![c].other = GetAlias(call[c].url)]
    /\ UNCHANGED <<processVars, storeVars, writer, faulty>>

\* A writer keeps readers out of the file.
FileIsFree == active \in Files => writer = None

GetByURL(c) ==
    /\ call[c].step = "resolved" /\ FileIsFree
    /\ LET url == call[c].url
           canonical == call[c].other
           hits == CASE active = "memory"   -> FindInMemory(url, canonical)
                     [] active \in Files    -> FindInFile(active, url, canonical)
                     [] active \in Sqlites  -> FindInSql(active, url, canonical)
                     [] active = "postgres" -> FindInPostgres(url, canonical)
       IN  \E found \in IF hits = {} THEN {{}} ELSE {{d} : d \in hits} :
              call' = [call EXCEPT ![c].step = "answered", ![c].found = found]
    /\ UNCHANGED <<processVars, storeVars, writer, faulty>>

ListDocs(c) ==
    /\ Calling(c, "list") /\ FileIsFree
    /\ \E limit, offset \in 0..1 :
          LET docs == CASE active \in Sqlites  -> ListSqlite(active, limit, offset)
                        [] active = "postgres" -> ListPostgres(limit, offset)
                        [] OTHER               -> ListInOrder(active, limit, offset)
          IN  IF docs = None THEN Answer(c, FALSE)
              ELSE call' = [call EXCEPT ![c].step = "answered", ![c].found = ToSet(docs)]
    /\ UNCHANGED <<processVars, storeVars, writer, faulty>>

\* SaveAlias: in memory at once; SQLite then writes a row, which may fail.
SaveAlias(c) ==
    /\ Calling(c, "alias")
    /\ aliases' = [aliases EXCEPT ![call[c].url] = call[c].other]
    /\ IF active \in Sqlites THEN call' = [call EXCEPT ![c].step = "aliased"] ELSE Answer(c, TRUE)
    /\ UNCHANGED <<processVars, content, columns, aliasRows, writer, faulty>>

SaveAliasRow(c) ==
    /\ call[c].step = "aliased"
    /\ \/ aliasRows' = [aliasRows EXCEPT ![active][call[c].url] = call[c].other] /\ Answer(c, TRUE)
       \/ Answer(c, FALSE) /\ UNCHANGED aliasRows
    /\ UNCHANGED <<processVars, content, columns, aliases, writer, faulty>>

-----------------------------------------------------------------------------
(* The process and its clock *)

\* CloseDB: the process ends in order; memory forgets its documents.
Close ==
    /\ active # None /\ crashes < MaxCrashes
    /\ \A c \in Client : call[c].step = "idle"
    /\ content' = [b \in Backend |-> IF b \in Volatile THEN << >> ELSE content[b]]
    /\ active' = None /\ crashes' = crashes + 1
    /\ aliases' = [u \in Url |-> None]
    /\ UNCHANGED <<deployment, now, calls, columns, aliasRows, call, writer, faulty>>

Crash ==
    /\ active # None /\ crashes < MaxCrashes
    /\ content' = [b \in Backend |-> IF b \in Volatile THEN << >> ELSE content[b]]
    /\ active' = None /\ crashes' = crashes + 1
    /\ aliases' = [u \in Url |-> None]
    /\ call' = [c \in Client |-> Idle] /\ writer' = None /\ faulty' = {}
    /\ UNCHANGED <<deployment, now, calls, columns, aliasRows>>

Tick ==
    /\ now < MaxTime
    /\ now' = now + 1
    /\ UNCHANGED <<deployment, active, crashes, calls, storeVars, call, writer, faulty>>

Next ==
    \/ Start \/ Close \/ Crash \/ Tick
    \/ \E c \in Client :
          \/ Begin(c) \/ Refuse(c) \/ Return(c)
          \/ WriteMemory(c) \/ WriteSqlite(c) \/ WritePostgres(c)
          \/ ExpireMemory(c) \/ ExpireSqlite(c) \/ ExpirePostgres(c)
          \/ Delete(c) \/ InitTables(c)
          \/ Load(c) \/ LoadToExpire(c) \/ WriteTemp(c) \/ Rename(c) \/ Truncate(c) \/ WriteDirectly(c)
          \/ Resolve(c) \/ GetByURL(c) \/ ListDocs(c) \/ SaveAlias(c) \/ SaveAliasRow(c)

Spec == Init /\ [][Next]_vars

-----------------------------------------------------------------------------
(* Properties *)

\* No store ever holds two documents of one URL: updates find the old version
\* (the unique column of SQL, the search by URL in the file and in memory), also
\* after crashes in the middle of writing the file.
OneVersion ==
    \A b \in Backend : \A i, j \in DOMAIN content[b] :
        content[b][i].url = content[b][j].url => i = j

Abstract == INSTANCE DocStore WITH
    docs <- [b \in Backend |-> ToSet(content[b])],
    Initially <- [b \in Backend |-> IF b \in Volatile THEN {} ELSE ToSet(Earlier)],
    Torn <- Files

\* Every driver implements the promise of DocStore: whatever step a process dies
\* in, a call has changed its own documents or none, and a restart loses nothing
\* but what lived in memory or a medium that had just failed was losing.
ImplementsDocStore == Abstract!Spec
=============================================================================
