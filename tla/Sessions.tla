------------------------------ MODULE Sessions ------------------------------
(* Sessions of MoroJS (middleware/built-in/session, installed as a hook):   *)
(* one browser, its requests, which may overlap, and a store that copies    *)
(* what it is given (Redis; external).  A store operation takes effect when *)
(* it is called and the code that awaits it goes on later.                  *)
(*                                                                          *)
(* The data of a session is the set of requests whose changes it contains.  *)
EXTENDS Naturals, FiniteSets

CONSTANTS
    Visits,            \* the requests of the browser
    Ids,               \* bound: what generateSessionId returns, each once
    None,
    Savers,            \* bound: the requests whose handler calls save() or touch()
    Rolling, Resave, SaveUninitialized,   \* options
    MaxFaults          \* bound: store operations that fail

ASSUME SessionsAssumption ==
    /\ None \notin Ids /\ Savers \subseteq Visits
    /\ {Rolling, Resave, SaveUninitialized} \subseteq BOOLEAN
    /\ MaxFaults \in Nat

VARIABLES
    store,       \* the store: data by session id; {} is an entry without data, or none
    jar,         \* the session cookie of the browser
    unused,      \* ids not generated yet
    visit,       \* how far each request is
    cookie,      \* the cookie each request carries
    setCookie,   \* the cookie its response sets
    id, data, isNew, isModified,   \* the Session object of each request
    saving,      \* whether a save() of each request waits for the store
    storeFaults,
    \* History, read by the properties only:
    changed,     \* requests whose handler changed its session and kept it
    missed,      \* those of them that changed it while a save() was waiting
    stored,      \* requests whose change has been stored, or failed to be
    gone,        \* ids destroyed and not stored again since
    goneBefore   \* the ids destroyed when a request was attached

session == <<id, data, isNew, isModified, saving>>
client == <<jar, cookie, setCookie>>
history == <<changed, missed, stored, gone, goneBefore>>
sessionVars == <<store, unused, visit, client, session, storeFaults, history>>

VisitStages == {"idle", "sent", "handling", "destroying", "regenerating", "answered", "done"}

SessionInit ==
    /\ store = [i \in Ids |-> {}] /\ jar = None /\ unused = Ids
    /\ visit = [r \in Visits |-> "idle"]
    /\ cookie = [r \in Visits |-> None] /\ setCookie = [r \in Visits |-> None]
    /\ id = [r \in Visits |-> None] /\ data = [r \in Visits |-> {}]
    /\ isNew = [r \in Visits |-> FALSE] /\ isModified = [r \in Visits |-> FALSE]
    /\ saving = [r \in Visits |-> FALSE] /\ storeFaults = 0
    /\ changed = {} /\ missed = {} /\ stored = {} /\ gone = {} /\ goneBefore = [r \in Visits |-> {}]

At(r, s) == visit[r] = s
Move(r, s) == visit' = [visit EXCEPT ![r] = s]

\* The browser sends a request with the cookie it has.
Send(r) ==
    /\ At(r, "idle") /\ Move(r, "sent")
    /\ cookie' = [cookie EXCEPT ![r] = jar]
    /\ UNCHANGED <<store, jar, setCookie, unused, session, storeFaults, history>>

\* loadSession: a store that fails counts as one that has nothing.
Loaded(r, fails) ==
    IF cookie[r] = None \/ fails THEN {} ELSE store[cookie[r]]

\* attachSession: a session without data gets an id of its own.
AttachedAnyway(r, i, fails) ==  \* mutant
    IF Loaded(r, fails) = {} /\ cookie[r] = None THEN i \in unused ELSE i = cookie[r]
AttachedId(r, i, fails) ==
    IF Loaded(r, fails) = {} THEN i \in unused ELSE i = cookie[r]

Attach(r) ==
    /\ At(r, "sent")
    /\ \E fails \in BOOLEAN, i \in Ids :
          /\ fails => storeFaults < MaxFaults /\ cookie[r] # None
          /\ storeFaults' = storeFaults + (IF fails THEN 1 ELSE 0)
          /\ AttachedId(r, i, fails)
          /\ id' = [id EXCEPT ![r] = i]
          /\ unused' = unused \ {i}
          /\ data' = [data EXCEPT ![r] = Loaded(r, fails)]
          /\ isNew' = [isNew EXCEPT ![r] = (Loaded(r, fails) = {})]
          /\ setCookie' = [setCookie EXCEPT ![r] = IF isNew'[r] \/ Rolling THEN i ELSE None]
    /\ goneBefore' = [goneBefore EXCEPT ![r] = gone]
    /\ Move(r, "handling")
    /\ UNCHANGED <<store, jar, cookie, isModified, saving, changed, missed, stored, gone>>

\* save() up to the await of the store, which has the data from then on.
Store(r) ==
    /\ store' = [store EXCEPT ![id[r]] = data[r]]
    /\ stored' = IF r \in data[r] THEN stored \cup {r} ELSE stored
    /\ gone' = IF data[r] = {} THEN gone ELSE gone \ {id[r]}

\* save() after it: the session is clean, whatever happened meanwhile.
Clean(r) ==
    /\ isModified' = [isModified EXCEPT ![r] = FALSE]
    /\ isNew' = [isNew EXCEPT ![r] = FALSE]

Saved(r) ==
    /\ saving[r] /\ saving' = [saving EXCEPT ![r] = FALSE]
    /\ Clean(r)
    /\ UNCHANGED <<store, unused, visit, client, id, data, storeFaults, history>>

\* The handler sets a property of its session, once.
Change(r) ==
    /\ At(r, "handling") /\ r \notin data[r]
    /\ data' = [data EXCEPT ![r] = @ \cup {r}]
    /\ isModified' = [isModified EXCEPT ![r] = TRUE]
    /\ changed' = changed \cup {r}
    /\ missed' = IF saving[r] THEN missed \cup {r} ELSE missed
    /\ UNCHANGED <<store, unused, visit, client, id, isNew, saving, storeFaults, stored,
                   gone, goneBefore>>

\* The handler has its session stored at once, by save() or touch(), which it need
\* not wait for.  Bound: it does so again only when the first has gone through.
SaveNow(r) ==
    /\ At(r, "handling") /\ r \in Savers
    /\ ~saving[r] /\ saving' = [saving EXCEPT ![r] = TRUE]
    /\ \E touched \in {FALSE, Rolling} :
          /\ touched \/ isModified[r] \/ isNew[r] \/ Resave
          /\ isModified' = [isModified EXCEPT ![r] = @ \/ touched]
    /\ Store(r)
    /\ UNCHANGED <<unused, visit, client, id, data, isNew, storeFaults, changed, missed,
                   goneBefore>>

\* destroy() and regenerate() begin by deleting the entry of the store.
Delete(r, s) ==
    /\ At(r, "handling") /\ Move(r, s)
    /\ store' = [store EXCEPT ![id[r]] = {}]
    /\ gone' = gone \cup {id[r]}
    /\ UNCHANGED <<unused, client, session, storeFaults, changed, missed, stored, goneBefore>>
Destroy(r) == Delete(r, "destroying")
Regenerate(r) == unused # {} /\ Delete(r, "regenerating")

Destroyed(r) ==
    /\ At(r, "destroying") /\ Move(r, "handling")
    /\ data' = [data EXCEPT ![r] = {}]
    /\ isModified' = [isModified EXCEPT ![r] = FALSE]
    /\ changed' = changed \ {r} /\ missed' = missed \ {r} /\ stored' = stored \ {r}
    /\ UNCHANGED <<store, unused, client, id, isNew, saving, storeFaults, gone, goneBefore>>

\* The session goes on under a new id; no cookie is set for it.
Regenerated(r) ==
    /\ At(r, "regenerating") /\ Move(r, "handling")
    /\ \E i \in unused :
          /\ id' = [id EXCEPT ![r] = i]
          /\ unused' = unused \ {i}
    /\ data' = [data EXCEPT ![r] = {}]
    /\ isNew' = [isNew EXCEPT ![r] = TRUE]
    /\ isModified' = [isModified EXCEPT ![r] = TRUE]
    /\ changed' = changed \ {r} /\ missed' = missed \ {r} /\ stored' = stored \ {r}
    /\ UNCHANGED <<store, client, saving, storeFaults, gone, goneBefore>>

\* The response reaches the browser, with its cookie.
Respond(r) ==
    /\ At(r, "handling")
    /\ Move(r, "answered")
    /\ jar' = IF setCookie[r] # None THEN setCookie[r] ELSE jar
    /\ UNCHANGED <<store, unused, cookie, setCookie, session, storeFaults, history>>

\* saveSession and save: whether anything is written.
SavesOldOnly(r) ==  \* mutant
    /\ SaveUninitialized \/ ~isNew[r]
    /\ isModified[r] \/ isNew[r] \/ Resave
Saves(r) ==
    /\ SaveUninitialized \/ ~isNew[r] \/ isModified[r]
    /\ isModified[r] \/ isNew[r] \/ Resave

\* The hook saves when the response is finished; nothing reads the flags later, so
\* that they need not wait for the store.
Save(r) ==
    /\ At(r, "answered") /\ Saves(r) /\ Move(r, "done")
    /\ Store(r) /\ Clean(r)
    /\ UNCHANGED <<unused, client, id, data, saving, storeFaults, changed, missed,
                   goneBefore>>

\* The store fails: the error is logged.
SaveFails(r) ==
    /\ At(r, "answered") /\ Saves(r) /\ Move(r, "done")
    /\ storeFaults < MaxFaults
    /\ storeFaults' = storeFaults + 1
    /\ stored' = stored \cup {r}
    /\ UNCHANGED <<store, unused, client, session, changed, missed, gone, goneBefore>>

SaveSkipped(r) ==
    /\ At(r, "answered") /\ ~Saves(r) /\ Move(r, "done")
    /\ UNCHANGED <<store, unused, client, session, storeFaults, history>>

\* The time to live of an entry is over.
Expire(i) ==
    /\ store[i] # {}
    /\ store' = [store EXCEPT ![i] = {}]
    /\ UNCHANGED <<unused, visit, client, session, storeFaults, history>>

SessionNext ==
    \/ \E r \in Visits :
          \/ Send(r) \/ Attach(r) \/ Change(r) \/ SaveNow(r) \/ Saved(r)
          \/ Destroy(r) \/ Destroyed(r) \/ Regenerate(r) \/ Regenerated(r)
          \/ Respond(r) \/ Save(r) \/ SaveFails(r) \/ SaveSkipped(r)
    \/ \E i \in Ids : Expire(i)

SessionSpec == SessionInit /\ [][SessionNext]_sessionVars

-----------------------------------------------------------------------------
(* Properties                                                               *)

SessionTypeOK ==
    /\ store \in [Ids -> SUBSET Visits]
    /\ jar \in Ids \cup {None} /\ unused \subseteq Ids
    /\ visit \in [Visits -> VisitStages]
    /\ cookie \in [Visits -> Ids \cup {None}]
    /\ setCookie \in [Visits -> Ids \cup {None}]
    /\ id \in [Visits -> Ids \cup {None}]
    /\ data \in [Visits -> SUBSET Visits]
    /\ isNew \in [Visits -> BOOLEAN] /\ isModified \in [Visits -> BOOLEAN]
    /\ saving \in [Visits -> BOOLEAN]
    /\ storeFaults \in 0 .. MaxFaults

\* What the handler of a request set in its session, and did not destroy
\* afterwards, has been handed to the store when the request is over: an earlier
\* save(), destroy() or regenerate() never leaves flags that make the hook skip
\* it.  Not so what it set while an earlier save() of its own was waiting for the
\* store: save() marks that clean too when it goes on, and the hook skips it.
ChangesSaved ==
    \A r \in Visits : At(r, "done") /\ r \in changed \ missed => r \in stored

\* The request a step belongs to, of those that move or save.
Acts(r) == visit'[r] # visit[r] \/ saving'[r] # saving[r]

\* A destroyed or regenerated session gets data in the store again only from a
\* request that was attached to it before (attachSession, then save): never
\* from one that presents its id later, whatever expired or failed meanwhile.
RevivedByOverlapOnly ==
    [][\A i \in gone :
          store'[i] # {} =>
            \E r \in Visits : Acts(r) /\ id[r] = i /\ i \notin goneBefore[r]]_sessionVars

=============================================================================
