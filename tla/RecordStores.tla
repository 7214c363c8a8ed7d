---------------------------- MODULE RecordStores ----------------------------
(***************************************************************************)
(* convilyn_edge/storage/provider.py: LocalStorageProvider hands out named *)
(* stores on a tier, each a DurableQueue in a file of its own.  What a     *)
(* queue does with torn writes is DurableQueue's; here enqueue appends or  *)
(* not, and its index is read at its first use.                            *)
(*                                                                         *)
(* A process has one provider, and the parts of the application hold       *)
(* stores by name.  A store is numbered among those opened for its name.   *)
(* File names are flat strings, here without their ".jsonl".               *)
(***************************************************************************)
EXTENDS Naturals, Sequences, FiniteSets

CONSTANTS
  Names,         (* names the application gives its stores                 *)
  SpellingOf,    (* per name: its slug, with the unsafe characters         *)
                 (* collapsed, stripped and cut at 48; the 12 hex digits of*)
                 (* its digest; and itself in lower case                   *)
  Holders,       (* parts of the application that hold a store             *)
  StoredRecords, (* records, equal if their keys are                       *)
  Nil            (* no store                                               *)

ASSUME StoreConstants ==
  /\ DOMAIN SpellingOf = Names
  /\ \A n \in Names : Nil # <<n, 1>>

VARIABLES
  files,         (* per tier and file name: the records of its lines       *)
  memo,          (* LocalStorageProvider._stores: per name a store or Nil *)
  queues,        (* the live stores: their file and their index            *)
  held,          (* per holder: its store, or Nil                         *)
  acked          (* history: per tier and name, the records enqueue took   *)

storeVars == <<files, memo, queues, held, acked>>

Media == {"internal", "removable", "media_store"}

WindowsReserved ==
  {"con", "prn", "aux", "nul"}
    \cup {port \o i : port \in {"com", "lpt"}, i \in {"1", "2", "3", "4", "5", "6", "7", "8", "9"}}

Slug(name) == IF SpellingOf[name].slug = "" THEN "store" ELSE SpellingOf[name].slug

Lossy(name) == Slug(name) # name

Reserved(name) == ~Lossy(name) /\ SpellingOf[name].lower \in WindowsReserved

Disambiguated(name) == Slug(name) \o "-" \o SpellingOf[name].digest

(* Variant: names are told apart by what is left of them only.             *)
SafeFilePlain ==
  [name \in Names |-> IF Reserved(name) THEN "_" \o name ELSE Slug(name)]

(* _safe_store_filename: a lossy name carries its digest.                  *)
SafeFile ==
  [name \in Names |-> IF Lossy(name) THEN Disambiguated(name)
                      ELSE IF Reserved(name) THEN "_" \o name
                      ELSE name]

(* Digests differ; a slug does not begin with "_", nor a reserved name hold*)
(* a "-".                                                                  *)
ASSUME Spellings ==
  \A k, n \in Names :
    /\ Lossy(k) /\ Lossy(n) /\ Disambiguated(k) = Disambiguated(n) => k = n
    /\ Reserved(k) => IF Lossy(n) THEN Disambiguated(n) \notin {k, "_" \o k}
                                  ELSE "_" \o k # n
    /\ Reserved(k) /\ Reserved(n) /\ "_" \o k = "_" \o n => k = n

Paths == [medium : Media, file : {SafeFile[n] : n \in Names}]

StoresInit ==
  /\ files = [p \in Paths |-> <<>>]
  /\ memo = [n \in Names |-> Nil]
  /\ queues = [i \in {} |-> Nil]
  /\ held = [h \in Holders |-> Nil]
  /\ acked = {}

NewStore(name) == <<name, Cardinality({i \in DOMAIN queues : i[1] = name}) + 1>>

(* Variant: a store of its own for everybody who asks.                     *)
DurableStoreFresh(h, name, medium) ==
  /\ queues' = [i \in DOMAIN queues \cup {NewStore(name)} |->
                 IF i \in DOMAIN queues THEN queues[i]
                 ELSE [path |-> [medium |-> medium, file |-> SafeFile[name]], index |-> Nil]]
  /\ memo' = [memo EXCEPT ![name] = NewStore(name)]
  /\ held' = [held EXCEPT ![h] = NewStore(name)]
  /\ UNCHANGED <<files, acked>>

(* durable_store: the one live store of that name.                         *)
DurableStore(h, name, medium) ==
  LET new == NewStore(name) IN
  /\ IF memo[name] # Nil
       THEN UNCHANGED <<queues, memo>> /\ held' = [held EXCEPT ![h] = memo[name]]
       ELSE /\ queues' = [i \in DOMAIN queues \cup {new} |->
                 IF i \in DOMAIN queues THEN queues[i]
                 ELSE [path |-> [medium |-> medium, file |-> SafeFile[name]], index |-> Nil]]
            /\ memo' = [memo EXCEPT ![name] = new]
            /\ held' = [held EXCEPT ![h] = new]
  /\ UNCHANGED <<files, acked>>

LinesOf(path) == {files[path][i] : i \in DOMAIN files[path]}

(* DurableQueue.enqueue through the store h holds.                         *)
StoreRecord(h, record) ==
  LET store == queues[held[h]]
      index == IF store.index = Nil THEN LinesOf(store.path) ELSE store.index
  IN  /\ queues' = [queues EXCEPT ![held[h]].index = index \cup {record}]
      /\ IF record \in index THEN UNCHANGED <<files, acked>>
         ELSE /\ files' = [files EXCEPT ![store.path] = Append(@, record)]
              /\ acked' = acked \cup {[medium |-> store.path.medium, name |-> held[h][1],
                                       record |-> record]}
      /\ UNCHANGED <<memo, held>>

(* The process is gone; the files are not.                                 *)
StoresClosed ==
  /\ memo' = [n \in Names |-> Nil]
  /\ queues' = [i \in {} |-> Nil]
  /\ held' = [h \in Holders |-> Nil]
  /\ UNCHANGED <<files, acked>>

(* Whatever the parts of the application do with the provider.             *)
StoresNext ==
  \/ \E h \in Holders, name \in Names, medium \in Media : DurableStore(h, name, medium)
  \/ \E h \in Holders, record \in StoredRecords : held[h] # Nil /\ StoreRecord(h, record)
  \/ StoresClosed

StoresSpec == StoresInit /\ [][StoresNext]_storeVars

Acked(medium, name) ==
  {a.record : a \in {b \in acked : b.medium = medium /\ b.name = name}}

Named(m, n) == [medium |-> m, file |-> SafeFile[n]]

(* A clean name may be spelled like the slug and digest of a lossy one.    *)
Impersonates(k, n) == ~Lossy(k) /\ Lossy(n) /\ k = Disambiguated(n)

Sharing ==
  [n \in Names |-> {k \in Names : k = n \/ Impersonates(k, n) \/ Impersonates(n, k)}]

Alone(n) == Sharing[n] = {n}

AckedIn(m, n) == UNION {Acked(m, k) : k \in Sharing[n]}

(* storage/provider.py:62-63,131-132 say that two names never share a file.*)
(* They do when one is spelled like the slug and digest of the other, and  *)
(* no two others do: across restarts and whoever holds it, a file holds    *)
(* what was acknowledged under these names, and under a name that is alone *)
(* with its file each record once.                                         *)
FileOfOneName ==
  \A m \in Media, n \in Names :
    /\ LinesOf(Named(m, n)) = AckedIn(m, n)
    /\ Alone(n) => LET lines == files[Named(m, n)] IN
                   \A i, j \in DOMAIN lines : i # j => lines[i] # lines[j]

(* Under a name that is alone with its file, each tier is offline/queue.py's*)
(* buffer by itself, whoever holds it, whatever is written under other     *)
(* names and however often the process dies: a record it lacks goes to its *)
(* end, and none ever leaves or moves.                                     *)
StoreBuffer(m, n) == INSTANCE ApplyOnceBuffer
  WITH Keys <- StoredRecords, MaxRewrite <- 0,
       buffer <- files[Named(m, n)], told <- Acked(m, n), before <- {}

StoresOnlyAccept ==
  [][\A m \in Media, n \in {k \in Names : Alone(k)} :
       [\E record \in StoredRecords : StoreBuffer(m, n)!Accept(record)]_<<files[Named(m, n)],
                                                                          Acked(m, n)>>]_storeVars
=============================================================================
