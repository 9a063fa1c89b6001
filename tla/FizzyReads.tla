------------------------------ MODULE FizzyReads ----------------------------
(***************************************************************************)
(* Reads of a Fizzy board over HTTP, with the ETag cache between:          *)
(* requestResource and its transport (src/fizzy-http-client.js), and the   *)
(* cache with the file it is kept in (src/etag-cache.js).                  *)
(*                                                                         *)
(* Several reads of a process are under way at a time, people change the   *)
(* board meanwhile, and the process is killed and started again, perhaps   *)
(* with another configuration.  A list comes in pages; an ETag is that of  *)
(* the answer it came with, hence of the first page.                       *)
(***************************************************************************)
EXTENDS Naturals, Sequences, FiniteSets

CONSTANTS Task,        \* the reads that may be under way
          Resource,    \* what is read: a kind and an id
          Context,     \* configurations: account, URL, token, boards, filters
          MaxReads,    \* bound: reads in a behaviour
          MaxChanges,  \* bound: changes of a resource
          MaxFaults    \* bound: calls and writes that fail, kills

ASSUME FizzyReadsAssumption ==
    MaxReads \in Nat /\ MaxChanges \in Nat /\ MaxFaults \in Nat

(* The type under which a read is cached: those of a list and of one of    *)
(* its members may be the same.                                            *)
TypeOf == [boards |-> "board_collection", board |-> "board",
           columns |-> "column_collection", column |-> "column",
           cards |-> "card_collection", golden |-> "golden_card_collection",
           card |-> "card", comments |-> "comment", comment |-> "comment",
           tags |-> "tag", tag |-> "tag", users |-> "user", user |-> "user",
           webhooks |-> "webhook", webhook |-> "webhook"]

Lists == {"boards", "columns", "cards", "golden", "comments", "tags", "users", "webhooks"}

(* resourceKey; the query counts as part of the id.                        *)
KeyOf(r) == <<TypeOf[r.kind], r.id>>

Key == {KeyOf(r) : r \in Resource}

Pages(r) == IF r.kind \in Lists THEN 2 ELSE 1   \* bound: pages of a list

(* A page as it is in a context: people with different rights, of          *)
(* different accounts, do not see the same, whatever the ETag is.          *)
Page(c, r, p, v) == [context |-> c, of |-> r, page |-> p, version |-> v]

NoEntry == [etag |-> <<>>, data |-> <<>>]
Broken  == [etag |-> <<>>, data |-> <<"broken">>]   \* an entry that is not valid
NoFile  == [state |-> "none"]
Torn    == [state |-> "torn"]
Kept(c, e) == [state |-> "whole", context |-> c, entries |-> e]

VARIABLES
    server,    \* the version of each page of each resource
    changes,
    context,   \* the configuration of the process
    file,      \* etag-cache.json
    tmp,       \* the temporary files, by the save that made them first
    loaded,    \* has load begun
    entries,   \* the cache in memory
    pc,        \* the await a read is in
    of,        \* the resource it reads
    sent,      \* the entry whose ETag went with the request
    body,      \* the pages it has
    saving,    \* the temporary file of its save, and what is written
    held,      \* history: each page's versions since the read began
    collided,  \* history: two saves took one temporary file
    reads, faults

cacheVars == <<file, tmp, loaded, entries>>
taskVars  == <<of, sent, body, saving, held>>
readsVars == <<server, changes, context, cacheVars, pc, taskVars, collided, reads, faults>>

NoSave == [name |-> "none", content |-> NoFile]
NoRead == CHOOSE r \in Resource : TRUE

Current(r) == [p \in 1..Pages(r) |-> Page(context, r, p, server[r][p])]

ReadsInit ==
    /\ server = [r \in Resource |-> [p \in 1..Pages(r) |-> 0]]
    /\ changes = 0
    /\ context \in Context
    /\ \E c \in Context, r \in Resource :
          file \in {NoFile, Torn,
                    Kept(c, [k \in Key |-> Broken]),
                    Kept(c, [k \in Key |-> IF k = KeyOf(r)
                        THEN [etag |-> <<r, 0>>,
                              data |-> [p \in 1..Pages(r) |-> Page(c, r, p, 0)]]
                        ELSE NoEntry])}
    /\ tmp = [t \in Task |-> NoFile]
    /\ loaded = FALSE /\ entries = [k \in Key |-> NoEntry]
    /\ pc = [t \in Task |-> "idle"]
    /\ of = [t \in Task |-> NoRead] /\ sent = [t \in Task |-> NoEntry]
    /\ body = [t \in Task |-> <<>>] /\ saving = [t \in Task |-> NoSave]
    /\ held = [t \in Task |-> <<>>]
    /\ collided = FALSE /\ reads = 0 /\ faults = 0

-----------------------------------------------------------------------------
To(t, step) == pc' = [pc EXCEPT ![t] = step]

Outside == UNCHANGED <<server, changes, context>>

(* requestResource: the first read loads the file; one that begins while   *)
(* it is being read does not wait for it.                                  *)
Begin(t, r) ==
    /\ pc[t] = "idle" /\ reads < MaxReads
    /\ reads' = reads + 1
    /\ of' = [of EXCEPT ![t] = r]
    /\ body' = [body EXCEPT ![t] = <<>>]
    /\ held' = [held EXCEPT ![t] = [p \in 1..Pages(r) |-> {server[r][p]}]]
    /\ loaded' = TRUE
    /\ To(t, IF loaded THEN "lookup" ELSE "load")
    /\ UNCHANGED <<file, tmp, entries, sent, saving, collided, faults>> /\ Outside

\* A slip: whatever the configuration, the entries are kept.
LoadAnyContext(t) ==
    /\ pc[t] = "load"
    /\ entries' = IF file.state = "none" THEN entries
                  ELSE IF file.state = "torn" THEN [k \in Key |-> NoEntry]
                  ELSE file.entries
    /\ To(t, "lookup")
    /\ UNCHANGED <<file, tmp, loaded, taskVars, collided, reads, faults>> /\ Outside

(* load: the entries of this configuration's file replace those in memory. *)
Load(t) ==
    /\ pc[t] = "load"
    /\ entries' = IF file.state = "none" THEN entries
                  ELSE IF file.state = "torn" \/ file.context # context
                  THEN [k \in Key |-> NoEntry]
                  ELSE file.entries
    /\ To(t, "lookup")
    /\ UNCHANGED <<file, tmp, loaded, taskVars, collided, reads, faults>> /\ Outside

Valid(e) == e.etag # <<>>

(* lookup: an entry that is not valid is dropped; the request is sent.     *)
Lookup(t) ==
    /\ pc[t] = "lookup"
    /\ LET k == KeyOf(of[t]) IN
       /\ sent' = [sent EXCEPT ![t] = IF Valid(entries[k]) THEN entries[k] ELSE NoEntry]
       /\ entries' = [entries EXCEPT ![k] = IF Valid(@) THEN @ ELSE NoEntry]
    /\ To(t, "request")
    /\ UNCHANGED <<file, tmp, loaded, of, body, saving, held, collided, reads, faults>>
    /\ Outside

Etag(r) == <<r, server[r][1]>>

(* The board answers: 304, or the first page.                              *)
Answer(t) ==
    /\ pc[t] = "request"
    /\ IF sent[t].etag = Etag(of[t])
       THEN To(t, "unchanged") /\ UNCHANGED <<body, sent>>
       ELSE /\ body' = [body EXCEPT ![t] = <<Current(of[t])[1]>>]
            /\ sent' = [sent EXCEPT ![t].etag = Etag(of[t])]
            /\ To(t, "pages")
    /\ UNCHANGED <<cacheVars, of, saving, held, collided, reads, faults>> /\ Outside

(* readFetchResponse follows the links to further pages.                   *)
NextPage(t) ==
    /\ pc[t] = "pages" /\ Len(body[t]) < Pages(of[t])
    /\ body' = [body EXCEPT ![t] = Append(@, Current(of[t])[Len(@) + 1])]
    /\ UNCHANGED <<cacheVars, pc, of, sent, saving, held, collided, reads, faults>> /\ Outside

Returns(t, data) == To(t, "returned") /\ body' = [body EXCEPT ![t] = data]

(* 304: the snapshot that belongs to the ETag that was sent.               *)
NotModified(t) ==
    /\ pc[t] = "unchanged"
    /\ Returns(t, sent[t].data)
    /\ UNCHANGED <<cacheVars, of, sent, saving, held, collided, reads, faults>> /\ Outside

(* set: the answer is in the cache before it is saved.                     *)
Store(t) ==
    /\ pc[t] = "pages" /\ Len(body[t]) = Pages(of[t])
    /\ entries' = [entries EXCEPT ![KeyOf(of[t])] = [etag |-> sent[t].etag, data |-> body[t]]]
    /\ To(t, "save")
    /\ UNCHANGED <<file, tmp, loaded, taskVars, collided, reads, faults>> /\ Outside

Written == Kept(context, entries)

\* A slip: the file is written in place.
SaveInPlace(t) ==
    /\ pc[t] = "save"
    /\ saving' = [saving EXCEPT ![t] = [name |-> t, content |-> Written]]
    /\ file' = Torn /\ tmp' = [tmp EXCEPT ![t] = Torn]
    /\ To(t, "write")
    /\ UNCHANGED <<loaded, entries, of, sent, body, held, collided, reads, faults>> /\ Outside

(* save: the temporary file is named after the process and the             *)
(* millisecond, which a save under way may share.                          *)
Save(t) ==
    /\ pc[t] = "save"
    /\ \E n \in {t} \cup {saving[o].name : o \in {u \in Task : pc[u] \in {"write", "rename"}}} :
          /\ saving' = [saving EXCEPT ![t] = [name |-> n, content |-> Written]]
          /\ tmp' = [tmp EXCEPT ![n] = Torn]
          /\ collided' = (collided \/ n # t)
    /\ To(t, "write")
    /\ UNCHANGED <<file, loaded, entries, of, sent, body, held, reads, faults>> /\ Outside

(* A file that was renamed meanwhile is written to all the same.           *)
Write(t) ==
    /\ pc[t] = "write"
    /\ IF tmp[saving[t].name] = NoFile
       THEN file' = (IF file = Torn THEN saving[t].content ELSE file) /\ UNCHANGED tmp
       ELSE tmp' = [tmp EXCEPT ![saving[t].name] = saving[t].content] /\ UNCHANGED file
    /\ To(t, "rename")
    /\ UNCHANGED <<loaded, entries, taskVars, collided, reads, faults>> /\ Outside

(* The read returns when the file is in place; it throws if rename finds   *)
(* nothing to rename.                                                      *)
Rename(t) ==
    /\ pc[t] = "rename"
    /\ IF tmp[saving[t].name] = NoFile
       THEN To(t, "thrown") /\ UNCHANGED <<file, tmp, body>>
       ELSE /\ file' = tmp[saving[t].name]
            /\ tmp' = [tmp EXCEPT ![saving[t].name] = NoFile]
            /\ Returns(t, body[t])
    /\ saving' = [saving EXCEPT ![t] = NoSave]
    /\ UNCHANGED <<loaded, entries, of, sent, held, collided, reads, faults>> /\ Outside

(* The caller has the answer or the error, and goes on.                    *)
End(t) ==
    /\ pc[t] \in {"returned", "thrown"}
    /\ To(t, "idle")
    /\ of' = [of EXCEPT ![t] = NoRead] /\ sent' = [sent EXCEPT ![t] = NoEntry]
    /\ body' = [body EXCEPT ![t] = <<>>] /\ held' = [held EXCEPT ![t] = <<>>]
    /\ UNCHANGED <<cacheVars, saving, collided, reads, faults>> /\ Outside

Fault == faults < MaxFaults /\ faults' = faults + 1

(* The request, one for a page, or the save fails.                         *)
Fails(t) ==
    /\ pc[t] \in {"request", "pages", "save", "write"}
    /\ To(t, "thrown")
    /\ saving' = [saving EXCEPT ![t] = NoSave]
    /\ Fault
    /\ UNCHANGED <<cacheVars, of, sent, body, held, collided, reads>> /\ Outside

Restart(c) ==
    /\ context' = c
    /\ loaded' = FALSE /\ entries' = [k \in Key |-> NoEntry]
    /\ tmp' = [t \in Task |-> NoFile]
    /\ pc' = [t \in Task |-> "idle"] /\ saving' = [t \in Task |-> NoSave]
    /\ body' = [t \in Task |-> <<>>] /\ sent' = [t \in Task |-> NoEntry]
    /\ of' = [t \in Task |-> NoRead] /\ held' = [t \in Task |-> <<>>]
    /\ Fault
    /\ UNCHANGED <<server, changes, file, collided, reads>>

(* People change a page of a resource.                                     *)
Change(r, p) ==
    /\ changes < MaxChanges /\ changes' = changes + 1
    /\ server' = [server EXCEPT ![r][p] = changes']
    /\ held' = [t \in Task |-> IF pc[t] # "idle" /\ of[t] = r
                               THEN [held[t] EXCEPT ![p] = @ \cup {changes'}] ELSE held[t]]
    /\ UNCHANGED <<context, cacheVars, pc, of, sent, body, saving, collided, reads, faults>>

Read(t) ==
    \/ \E r \in Resource : Begin(t, r)
    \/ Load(t) \/ Lookup(t) \/ Answer(t) \/ NextPage(t) \/ NotModified(t) \/ Store(t)
    \/ Save(t) \/ Write(t) \/ Rename(t) \/ Fails(t) \/ End(t)

ReadsNext ==
    \/ \E t \in Task : Read(t)
    \/ \E c \in Context : Restart(c)
    \/ \E r \in Resource : \E p \in 1..Pages(r) : Change(r, p)

ReadsSpec == ReadsInit /\ [][ReadsNext]_readsVars

-----------------------------------------------------------------------------
IsFresh(t, p) ==
    /\ body[t][p].context = context /\ body[t][p].of = of[t] /\ body[t][p].page = p
    /\ body[t][p].version \in held[t][p]

(* A read returns the resource it asked for, as this configuration sees    *)
(* it, complete, and its first page as it was while the read was under     *)
(* way: whatever else is read, changed, kept from before or started again. *)
FirstPageFresh ==
    \A t \in Task : pc[t] = "returned" =>
        /\ Len(body[t]) = Pages(of[t])
        /\ IsFresh(t, 1)
        /\ \A p \in 1..Pages(of[t]) : body[t][p].context = context /\ body[t][p].of = of[t]

(* No kill and no two saves at a time leave half a file, unless the saves  *)
(* began in the same millisecond.                                          *)
FileStaysWhole == [][file' = Torn => file = Torn \/ collided]_readsVars

-----------------------------------------------------------------------------
(* What one would expect, and the code does not keep.                      *)

(* Every other page is fresh, too.  The cache is "an optimization only",   *)
(* which changes nothing of what is read (SPEC.md).                        *)
AllPagesFresh ==
    \A t \in Task : pc[t] = "returned" => \A p \in 1..Pages(of[t]) : IsFresh(t, p)

(* A read that was answered returns, whatever becomes of the cache.        *)
AnsweredReturns ==
    [][\A t \in Task : pc[t] \in {"save", "write", "rename"} => pc'[t] # "thrown"]_readsVars
=============================================================================
