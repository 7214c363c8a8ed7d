------------------------- MODULE EdgeDevice_proofs -------------------------
(***************************************************************************)
(* What holds of the stores holds on the device, whatever its machine, its *)
(* events and its server: no step of it but those of RecordStores touches  *)
(* a store.                                                                *)
(*                                                                         *)
(* The device asks for its stores before it takes events, so from then on  *)
(* everybody holds one; and the pipeline runs only for an event there is.  *)
(***************************************************************************)
EXTENDS EdgeDevice, ModelOperator_proofs

-----------------------------------------------------------------------------
(* The stores by themselves (RecordStores), for any set of names, holders  *)
(* and records: who shares a file, and what it holds.                      *)
(*                                                                         *)
(* FileOfOneName is not inductive.  A record is appended when the index of *)
(* its store does not have it, so under a name that is alone with its file *)
(* the index must be the file's, though several holders and several boots  *)
(* write it: there is one live store per name.  The stores of two names    *)
(* that share a file do not see each other's appends in their indexes.     *)

StoreType == [path : Paths, index : {Nil} \cup SUBSET StoredRecords]

(* The live store of its name, the memo's; its index is unread, or exact if*)
(* no other name writes its file.                                          *)
LiveStore(i) ==
  /\ i[1] \in Names /\ memo[i[1]] = i
  /\ queues[i] \in StoreType
  /\ queues[i].path.file = SafeFile[i[1]]
  /\ Alone(i[1]) => queues[i].index \in {Nil, LinesOf(queues[i].path)}

StoresShape ==
  /\ files \in [Paths -> Seq(StoredRecords)]
  /\ DOMAIN memo = Names /\ memo = [n \in Names |-> memo[n]]
  /\ DOMAIN held = Holders /\ held = [h \in Holders |-> held[h]]
  /\ queues = [i \in DOMAIN queues |-> queues[i]]
  /\ acked \subseteq [medium : Media, name : Names, record : StoredRecords]

StoresInv ==
  /\ StoresShape
  /\ Nil \notin DOMAIN queues
  /\ \A i \in DOMAIN queues : LiveStore(i)
  /\ \A n \in Names : memo[n] # Nil => memo[n] \in DOMAIN queues /\ memo[n][1] = n
  /\ \A h \in Holders : held[h] # Nil => held[h] \in DOMAIN queues
  /\ FileOfOneName

-----------------------------------------------------------------------------
(* Names and lines *)

(* storage/provider.py:56-72: a name shares its file with the name that is *)
(* spelled like its slug and digest, or whose slug and digest it is spelled*)
(* like, and with no other.                                                *)
THEOREM WhoSharesAFile ==
  ASSUME NEW k \in Names, NEW n \in Names
  PROVE  SafeFile[k] = SafeFile[n] <=> k \in Sharing[n]
<1>1. k \in Sharing[n] <=> k = n \/ Impersonates(k, n) \/ Impersonates(n, k)
  BY DEF Sharing
<1>2. \A j \in Names : SafeFile[j] = IF Lossy(j) THEN Disambiguated(j)
                                     ELSE IF Reserved(j) THEN "_" \o j ELSE j
  BY DEF SafeFile
<1>3. CASE Lossy(k) /\ Lossy(n)
  BY <1>1, <1>2, <1>3, Spellings DEF Impersonates
<1>4. CASE Lossy(k) /\ ~Lossy(n)
  BY <1>1, <1>2, <1>4, Spellings DEF Impersonates
<1>5. CASE ~Lossy(k) /\ Lossy(n)
  BY <1>1, <1>2, <1>5, Spellings DEF Impersonates
<1>6. CASE ~Lossy(k) /\ ~Lossy(n)
  BY <1>1, <1>2, <1>6, Spellings DEF Impersonates
<1> QED BY <1>3, <1>4, <1>5, <1>6

LEMMA NamesOfFile ==
  ASSUME NEW n \in Names
  PROVE  /\ n \in Sharing[n] /\ Sharing[n] \subseteq Names
         /\ \A k \in Sharing[n] : n \in Sharing[k]
BY DEF Sharing

(* Spelling does not change.                                               *)
LEMMA SpelledForGood ==
  /\ SafeFile' = SafeFile /\ Sharing' = Sharing
  /\ \A n : Alone(n)' <=> Alone(n)
  /\ \A m, n : Named(m, n)' = Named(m, n)
BY DEF SafeFile, Sharing, Alone, Named, Impersonates

LEMMA PathsOfNames ==
  ASSUME NEW m \in Media, NEW n \in Names
  PROVE  Named(m, n) \in Paths
BY DEF Paths, Named

(* The property of one file.                                               *)
HoldsItsNames(m, n) ==
  /\ LinesOf(Named(m, n)) = AckedIn(m, n)
  /\ Alone(n) => LET lines == files[Named(m, n)] IN
                 \A i, j \in DOMAIN lines : i # j => lines[i] # lines[j]

LEMMA OfOneName ==
  /\ FileOfOneName <=> \A m \in Media, n \in Names : HoldsItsNames(m, n)
  /\ FileOfOneName' <=> \A m \in Media, n \in Names : HoldsItsNames(m, n)'
BY DEF FileOfOneName, HoldsItsNames

(* The lines of a file after an append.                                    *)
LEMMA AppendedLines ==
  ASSUME NEW s \in Seq(StoredRecords), NEW r \in StoredRecords
  PROVE  LET t == Append(s, r) IN
         /\ t \in Seq(StoredRecords)
         /\ {t[i] : i \in DOMAIN t} = {s[i] : i \in DOMAIN s} \cup {r}
         /\ r \notin {s[i] : i \in DOMAIN s} /\ (\A i, j \in DOMAIN s : i # j => s[i] # s[j])
              => \A i, j \in DOMAIN t : i # j => t[i] # t[j]
<1> DEFINE t == Append(s, r)
<1>1. t \in Seq(StoredRecords) /\ Len(t) = Len(s) + 1 /\ Len(s) \in Nat
  OBVIOUS
<1>2. DOMAIN s = 1..Len(s) /\ DOMAIN t = DOMAIN s \cup {Len(s) + 1} /\ Len(s) + 1 \notin DOMAIN s
  BY <1>1
<1>3. t[Len(s) + 1] = r /\ \A i \in DOMAIN s : t[i] = s[i]
  BY <1>1, <1>2
<1> HIDE DEF t
<1>4. {t[i] : i \in DOMAIN t} = {s[i] : i \in DOMAIN s} \cup {r}
  BY <1>2, <1>3
<1>5. ASSUME r \notin {s[i] : i \in DOMAIN s}, \A i, j \in DOMAIN s : i # j => s[i] # s[j],
             NEW i \in DOMAIN t, NEW j \in DOMAIN t, i # j
      PROVE  t[i] # t[j]
  BY <1>2, <1>3, <1>5
<1> QED BY <1>1, <1>4, <1>5 DEF t

-----------------------------------------------------------------------------
(* The steps *)

LEMMA StoresInvInit == StoresInit => StoresInv
<1> SUFFICES ASSUME StoresInit PROVE StoresInv
  OBVIOUS
<1>1. StoresShape
  BY DEF StoresInit, StoresShape
<1>2. DOMAIN queues = {}
  BY DEF StoresInit
<1>3. \A p \in Paths : LinesOf(p) = {} /\ DOMAIN files[p] = {}
  BY DEF StoresInit, LinesOf
<1>4. \A m \in Media, n \in Names : Acked(m, n) = {}
  BY DEF StoresInit, Acked
<1>5. ASSUME NEW m \in Media, NEW n \in Names
      PROVE  HoldsItsNames(m, n)
  <2>1. \A k \in Sharing[n] : Acked(m, k) = {}
    BY <1>4, NamesOfFile
  <2>2. AckedIn(m, n) = {}
    BY <2>1 DEF AckedIn
  <2> QED BY <1>3, <2>2, PathsOfNames DEF HoldsItsNames
<1> QED BY <1>1, <1>2, <1>5, OfOneName DEF StoresInv, StoresInit

(* What does not touch a file or the history keeps the file's property.    *)
LEMMA FilesKept ==
  ASSUME FileOfOneName, UNCHANGED <<files, acked>>
  PROVE  FileOfOneName' /\ \A p : LinesOf(p)' = LinesOf(p)
<1>1. \A p : LinesOf(p)' = LinesOf(p)
  BY DEF LinesOf
<1>2. \A m, n : Acked(m, n)' = Acked(m, n)
  BY DEF Acked
<1>3. ASSUME NEW m \in Media, NEW n \in Names
      PROVE  HoldsItsNames(m, n)'
  <2>1. HoldsItsNames(m, n)
    BY OfOneName
  <2>2. AckedIn(m, n)' = AckedIn(m, n)
    BY <1>2, SpelledForGood DEF AckedIn
  <2> QED BY <1>1, <2>1, <2>2, SpelledForGood DEF HoldsItsNames, LinesOf
<1> QED BY <1>1, <1>3, OfOneName

LEMMA ClosedStep ==
  ASSUME StoresInv, StoresClosed
  PROVE  StoresInv'
<1>1. StoresShape'
  BY DEF StoresInv, StoresShape, StoresClosed
<1>2. DOMAIN queues' = {} /\ \A n \in Names : memo'[n] = Nil
  BY DEF StoresClosed
<1>3. \A h \in Holders : held'[h] = Nil
  BY DEF StoresClosed
<1>4. FileOfOneName'
  BY FilesKept DEF StoresInv, StoresClosed
<1> QED BY <1>1, <1>2, <1>3, <1>4 DEF StoresInv

(* durable_store: a name that has no live store gets the first.            *)
LEMMA OpenStep ==
  ASSUME StoresInv, NEW h \in Holders, NEW name \in Names, NEW medium \in Media,
         DurableStore(h, name, medium)
  PROVE  StoresInv'
<1> DEFINE new == NewStore(name)
<1> USE DEF StoresInv
<1>1. FileOfOneName' /\ \A p : LinesOf(p)' = LinesOf(p)
  BY FilesKept DEF DurableStore
<1>2. CASE memo[name] # Nil
  <2>1. UNCHANGED <<queues, memo>> /\ held' = [held EXCEPT ![h] = memo[name]]
    BY <1>2 DEF DurableStore
  <2>2. StoresShape' /\ \A g \in Holders : held'[g] # Nil => held'[g] \in DOMAIN queues'
    BY <1>2, <2>1 DEF StoresShape, DurableStore
  <2>3. \A i \in DOMAIN queues' : LiveStore(i)'
    BY <1>1, <2>1, SpelledForGood DEF LiveStore
  <2> QED BY <1>1, <2>1, <2>2, <2>3
<1>3. CASE memo[name] = Nil
  <2>1. \A i \in DOMAIN queues : i[1] # name
    BY <1>3 DEF LiveStore
  <2>2. new = <<name, 1>>
    <3>1. {i \in DOMAIN queues : i[1] = name} = {}
      BY <2>1
    <3> DEFINE opened == {i \in DOMAIN queues : i[1] = name}
    <3>2. new = <<name, Cardinality(opened) + 1>>
      BY DEF NewStore
    <3>3. opened = {}
      BY <3>1
    <3> HIDE DEF opened, new
    <3>4. Cardinality({}) = 0
      BY FS_EmptySet
    <3> QED BY <3>2, <3>3, <3>4
  <2>3. new # Nil /\ new[1] = name /\ new \notin DOMAIN queues
    BY <2>1, <2>2, StoreConstants
  <2> HIDE DEF new
  <2> DEFINE opened == [path |-> [medium |-> medium, file |-> SafeFile[name]], index |-> Nil]
  <2>4. /\ queues' = [i \in DOMAIN queues \cup {new} |-> IF i \in DOMAIN queues THEN queues[i]
                                                         ELSE opened]
        /\ memo' = [memo EXCEPT ![name] = new] /\ held' = [held EXCEPT ![h] = new]
        /\ UNCHANGED <<files, acked>>
    BY <1>3 DEF DurableStore, new
  <2>5. opened \in StoreType
    BY PathsOfNames DEF StoreType, Named
  <2> HIDE DEF opened
  <2>6. DOMAIN queues' = DOMAIN queues \cup {new} /\ queues'[new] = opened
        /\ \A i \in DOMAIN queues : queues'[i] = queues[i]
    BY <2>3, <2>4
  <2>7. StoresShape' /\ Nil \notin DOMAIN queues'
    <3>1. queues' = [i \in DOMAIN queues' |-> queues'[i]]
      BY <2>4
    <3>2. DOMAIN memo' = Names /\ memo' = [n \in Names |-> memo'[n]]
          /\ DOMAIN held' = Holders /\ held' = [g \in Holders |-> held'[g]]
      BY <2>4 DEF StoresShape
    <3> QED BY <2>3, <2>4, <2>6, <3>1, <3>2 DEF StoresShape
  <2>8. memo'[name] = new /\ \A n \in Names \ {name} : memo'[n] = memo[n]
    BY <2>4 DEF StoresShape
  <2>9. ASSUME NEW i \in DOMAIN queues' PROVE LiveStore(i)'
    <3>1. CASE i \in DOMAIN queues
      BY <1>1, <2>1, <2>6, <2>8, <3>1, SpelledForGood DEF LiveStore
    <3>2. CASE i = new
      <4>1. opened.path.file = SafeFile[name] /\ opened.index = Nil
        BY DEF opened
      <4>2. SafeFile[i[1]]' = SafeFile[i[1]]
        BY SpelledForGood
      <4> QED BY <2>3, <2>5, <2>6, <2>8, <3>2, <4>1, <4>2 DEF LiveStore
    <3> QED BY <2>6, <3>1, <3>2
  <2>10. \A n \in Names : memo'[n] # Nil => memo'[n] \in DOMAIN queues' /\ memo'[n][1] = n
    BY <2>3, <2>6, <2>8
  <2>11. \A g \in Holders : held'[g] # Nil => held'[g] \in DOMAIN queues'
    BY <2>4, <2>6 DEF StoresShape
  <2> QED BY <1>1, <2>7, <2>9, <2>10, <2>11
<1> QED BY <1>2, <1>3

(* enqueue: the file and the history take the record together, and where   *)
(* the name is alone what its index does not have its file does not either.*)
LEMMA RecordStep ==
  ASSUME StoresInv, NEW h \in Holders, held[h] # Nil, NEW record \in StoredRecords,
         StoreRecord(h, record)
  PROVE  StoresInv'
<1> PICK s : s = held[h]
  OBVIOUS
<1>1. s \in DOMAIN queues /\ LiveStore(s)
  BY DEF StoresInv
<1> PICK name \in Names : name = s[1]
  BY <1>1 DEF LiveStore
<1> PICK path \in Paths : path = queues[s].path
  BY <1>1 DEF LiveStore, StoreType
<1> PICK lines : lines = LinesOf(path)
  OBVIOUS
<1> DEFINE index == IF queues[s].index = Nil THEN LinesOf(queues[s].path) ELSE queues[s].index
<1>2. path.file = SafeFile[name] /\ (Alone(name) => index = lines) /\ queues[s] \in StoreType
  BY <1>1 DEF LiveStore
<1>3. path.medium \in Media /\ path = Named(path.medium, name)
  BY <1>2 DEF Paths, Named
<1>4. /\ queues' = [queues EXCEPT ![s].index = index \cup {record}]
      /\ UNCHANGED <<memo, held>>
      /\ IF record \in index THEN UNCHANGED <<files, acked>>
         ELSE /\ files' = [files EXCEPT ![path] = Append(@, record)]
              /\ acked' = acked \cup {[medium |-> path.medium, name |-> name,
                                       record |-> record]}
  BY DEF StoreRecord
<1>5. /\ files \in [Paths -> Seq(StoredRecords)] /\ files[path] \in Seq(StoredRecords)
      /\ lines \subseteq StoredRecords /\ index \subseteq StoredRecords
  <2>1. files \in [Paths -> Seq(StoredRecords)] /\ files[path] \in Seq(StoredRecords)
    BY DEF StoresInv, StoresShape
  <2>2. lines \subseteq StoredRecords
    BY <2>1 DEF LinesOf
  <2> QED BY <1>2, <2>1, <2>2 DEF StoreType
<1> HIDE DEF index
(* A name that is alone has another file than this one, or is this one. *)
<1>6. ASSUME NEW i \in DOMAIN queues, i # s, Alone(i[1]) PROVE queues[i].path # path
  <2>1. i[1] # name
    BY <1>1, <1>6 DEF StoresInv, LiveStore
  <2>2. i[1] \in Names /\ queues[i].path.file = SafeFile[i[1]]
    BY DEF StoresInv, LiveStore
  <2>3. name \notin Sharing[i[1]]
    BY <1>6, <2>1 DEF Alone
  <2> QED BY <1>2, <2>2, <2>3, WhoSharesAFile
<1>7. ASSUME NEW m \in Media, NEW n \in Names
      PROVE  Named(m, n) = path <=> m = path.medium /\ name \in Sharing[n]
  BY <1>2, <1>3, WhoSharesAFile DEF Named
<1>8. \A m \in Media, n \in Names : HoldsItsNames(m, n)
  BY OfOneName DEF StoresInv
<1>9. Alone(name) => \A i, j \in DOMAIN files[path] : i # j => files[path][i] # files[path][j]
  BY <1>3, <1>8 DEF HoldsItsNames
<1> PICK new : new = IF record \in index THEN {} ELSE {record}
  OBVIOUS
<1>10. /\ files' \in [Paths -> Seq(StoredRecords)]
       /\ LinesOf(path)' = lines \cup new
       /\ \A p \in Paths \ {path} : files'[p] = files[p]
       /\ Alone(name) => \A i, j \in DOMAIN files'[path] :
                           i # j => files'[path][i] # files'[path][j]
       /\ acked' \subseteq [medium : Media, name : Names, record : StoredRecords]
       /\ Acked(path.medium, name)' = Acked(path.medium, name) \cup new
       /\ \A m \in Media, n \in Names :
            m # path.medium \/ n # name => Acked(m, n)' = Acked(m, n)
  <2>1. CASE record \in index
    <3>1. new = {} /\ UNCHANGED <<files, acked>>
      BY <1>4, <2>1
    <3>2. LinesOf(path)' = lines
      BY <3>1 DEF LinesOf
    <3>3. \A m, n : Acked(m, n)' = Acked(m, n)
      BY <3>1 DEF Acked
    <3>4. acked \subseteq [medium : Media, name : Names, record : StoredRecords]
      BY DEF StoresInv, StoresShape
    <3>5. Alone(name) => \A i, j \in DOMAIN files'[path] :
                           i # j => files'[path][i] # files'[path][j]
      BY <1>9, <3>1
    <3>6. Acked(path.medium, name)' = Acked(path.medium, name) \cup new
      BY <3>1, <3>3
    <3> QED BY <1>5, <3>1, <3>2, <3>3, <3>4, <3>5, <3>6
  <2>2. CASE record \notin index
    <3> DEFINE entry == [medium |-> path.medium, name |-> name, record |-> record]
               longer == Append(files[path], record)
    <3>1. files' = [files EXCEPT ![path] = longer] /\ acked' = acked \cup {entry}
          /\ new = {record}
      BY <1>4, <2>2
    <3>2. lines = {files[path][i] : i \in DOMAIN files[path]}
      BY DEF LinesOf
    <3>3. /\ longer \in Seq(StoredRecords)
          /\ {longer[i] : i \in DOMAIN longer} = lines \cup new
      BY <1>5, <3>1, <3>2, AppendedLines
    <3>4. Alone(name) => \A i, j \in DOMAIN longer : i # j => longer[i] # longer[j]
      <4>1. Alone(name) => record \notin {files[path][i] : i \in DOMAIN files[path]}
        BY <1>2, <2>2, <3>2
      <4> QED BY <1>5, <1>9, <4>1, AppendedLines
    <3> HIDE DEF longer
    <3>5. files' \in [Paths -> Seq(StoredRecords)] /\ files'[path] = longer
          /\ \A p \in Paths \ {path} : files'[p] = files[p]
      BY <1>5, <3>1, <3>3
    <3>6. LinesOf(path)' = lines \cup new
      <4>1. LinesOf(path)' = {longer[i] : i \in DOMAIN longer}
        BY <3>5 DEF LinesOf
      <4> QED BY <3>3, <4>1
    <3>7. acked' \subseteq [medium : Media, name : Names, record : StoredRecords]
      BY <1>3, <3>1 DEF StoresInv, StoresShape
    <3>8. entry.medium = path.medium /\ entry.name = name /\ entry.record = record
      OBVIOUS
    <3> HIDE DEF entry
    <3>9. Acked(path.medium, name)' = Acked(path.medium, name) \cup new
      <4>1. {b \in acked' : b.medium = path.medium /\ b.name = name}
              = {b \in acked : b.medium = path.medium /\ b.name = name} \cup {entry}
        BY <3>1, <3>8
      <4> QED BY <3>1, <3>8, <4>1 DEF Acked
    <3>10. ASSUME NEW m \in Media, NEW n \in Names, m # path.medium \/ n # name
           PROVE  Acked(m, n)' = Acked(m, n)
      BY <3>1, <3>8, <3>10 DEF Acked
    <3> QED BY <3>4, <3>5, <3>6, <3>7, <3>9, <3>10
  <2> QED BY <2>1, <2>2
<1>11. ASSUME NEW m \in Media, NEW n \in Names PROVE HoldsItsNames(m, n)'
  <2>1. /\ LinesOf(Named(m, n))' = {files'[Named(m, n)][i] : i \in DOMAIN files'[Named(m, n)]}
        /\ HoldsItsNames(m, n)' <=>
             /\ LinesOf(Named(m, n))' = AckedIn(m, n)'
             /\ Alone(n) => \A i, j \in DOMAIN files'[Named(m, n)] :
                              i # j => files'[Named(m, n)][i] # files'[Named(m, n)][j]
    BY SpelledForGood DEF HoldsItsNames, LinesOf
  <2>2. Named(m, n) \in Paths /\ n \in Sharing[n] /\ Sharing[n] \subseteq Names
    BY PathsOfNames, NamesOfFile
  <2>3. LinesOf(Named(m, n)) = AckedIn(m, n)
        /\ (Alone(n) => \A i, j \in DOMAIN files[Named(m, n)] :
                          i # j => files[Named(m, n)][i] # files[Named(m, n)][j])
    BY <1>8 DEF HoldsItsNames
  <2>4. CASE Named(m, n) = path
    <3>1. m = path.medium /\ name \in Sharing[n]
      BY <1>7, <2>4
    <3>2. LinesOf(Named(m, n))' = lines \cup new /\ LinesOf(Named(m, n)) = lines
      <4>1. LinesOf(path)' = {files'[path][i] : i \in DOMAIN files'[path]}
        BY DEF LinesOf
      <4> QED BY <1>10, <2>1, <2>4, <4>1
    <3>3. AckedIn(m, n)' = AckedIn(m, n) \cup new
      <4>1. /\ Acked(m, name)' = Acked(m, name) \cup new
            /\ \A k \in Sharing[n] : k # name => Acked(m, k)' = Acked(m, k)
        BY <1>10, <2>2, <3>1
      <4>2. Sharing' = Sharing
        BY SpelledForGood
      <4> QED BY <3>1, <4>1, <4>2 DEF AckedIn
    <3>4. LinesOf(Named(m, n))' = AckedIn(m, n)'
      BY <2>3, <3>2, <3>3
    <3>5. Alone(n) => Alone(name)
      <4>1. Alone(n) => n = name
        BY <3>1 DEF Alone
      <4> QED BY <4>1
    <3>6. Alone(n) => \A i, j \in DOMAIN files'[Named(m, n)] :
                        i # j => files'[Named(m, n)][i] # files'[Named(m, n)][j]
      BY <1>10, <2>4, <3>5
    <3> QED BY <2>1, <3>4, <3>6
  <2>5. CASE Named(m, n) # path
    <3>1. files'[Named(m, n)] = files[Named(m, n)]
      BY <1>10, <2>2, <2>5
    <3>2. LinesOf(Named(m, n))' = LinesOf(Named(m, n))
      BY <2>1, <3>1 DEF LinesOf
    <3>3. AckedIn(m, n)' = AckedIn(m, n)
      <4>1. \A k \in Sharing[n] : Acked(m, k)' = Acked(m, k)
        BY <1>7, <1>10, <2>2, <2>5
      <4> QED BY <4>1, SpelledForGood DEF AckedIn
    <3> QED BY <2>1, <2>3, <3>1, <3>2, <3>3
  <2> QED BY <2>4, <2>5
<1>12. StoresShape'
  <2>1. queues' = [i \in DOMAIN queues' |-> queues'[i]]
    BY <1>4 DEF StoresInv, StoresShape
  <2>2. DOMAIN memo' = Names /\ memo' = [n \in Names |-> memo'[n]]
        /\ DOMAIN held' = Holders /\ held' = [g \in Holders |-> held'[g]]
    BY <1>4 DEF StoresInv, StoresShape
  <2> QED BY <1>10, <2>1, <2>2 DEF StoresShape
<1>13. DOMAIN queues' = DOMAIN queues /\ \A i \in DOMAIN queues : i # s => queues'[i] = queues[i]
  BY <1>4
<1>14. queues'[s] = [queues[s] EXCEPT !.index = index \cup {record}]
  BY <1>1, <1>4
<1>15. ASSUME NEW i \in DOMAIN queues' PROVE LiveStore(i)'
  <2>1. CASE i = s
    <3>1. /\ queues'[s].path = path /\ queues'[s].index = index \cup {record}
          /\ queues'[s] \in StoreType
      BY <1>2, <1>5, <1>14 DEF StoreType
    <3>2. Alone(name) => queues'[s].index = LinesOf(path)'
      <4>1. LinesOf(path)' = lines \cup new
        BY <1>10
      <4> QED BY <1>2, <3>1, <4>1
    <3>3. LinesOf(queues[s].path)' = LinesOf(path)'
      BY <3>1 DEF LinesOf
    <3> QED BY <1>1, <1>2, <1>4, <2>1, <3>1, <3>2, <3>3, SpelledForGood DEF LiveStore
  <2>2. CASE i # s
    <3>1. i \in DOMAIN queues /\ queues'[i] = queues[i] /\ LiveStore(i)
      BY <1>13, <2>2 DEF StoresInv
    <3> PICK other \in Paths : other = queues[i].path
      BY <3>1 DEF LiveStore, StoreType
    <3>2. Alone(i[1]) => LinesOf(other)' = LinesOf(other)
      <4>1. Alone(i[1]) => files'[other] = files[other]
        BY <1>6, <1>10, <2>2, <3>1
      <4> QED BY <4>1 DEF LinesOf
    <3>3. LinesOf(queues[i].path)' = LinesOf(other)' /\ LinesOf(queues[i].path) = LinesOf(other)
      BY <3>1 DEF LinesOf
    <3> QED BY <1>4, <3>1, <3>2, <3>3, SpelledForGood DEF LiveStore
  <2> QED BY <2>1, <2>2
<1> QED BY <1>4, <1>11, <1>12, <1>13, <1>15, OfOneName DEF StoresInv

LEMMA StoresInvStutter == ASSUME StoresInv, UNCHANGED storeVars PROVE StoresInv'
<1>1. FileOfOneName' /\ \A p : LinesOf(p)' = LinesOf(p)
  BY FilesKept DEF storeVars, StoresInv
<1>2. ASSUME NEW i \in DOMAIN queues PROVE LiveStore(i)'
  <2>1. LinesOf(queues[i].path)' = LinesOf(queues[i].path)
    BY DEF LinesOf, storeVars
  <2> QED BY <2>1, SpelledForGood DEF StoresInv, LiveStore, storeVars
<1>3. StoresShape'
  BY DEF StoresInv, StoresShape, storeVars
<1> QED BY <1>1, <1>2, <1>3 DEF StoresInv, storeVars

LEMMA StoresInvInductive == ASSUME StoresInv, [StoresNext]_storeVars PROVE StoresInv'
<1>1. CASE UNCHANGED storeVars
  BY <1>1, StoresInvStutter
<1>2. CASE \E h \in Holders, name \in Names, medium \in Media : DurableStore(h, name, medium)
  BY <1>2, OpenStep
<1>3. CASE \E h \in Holders, record \in StoredRecords : held[h] # Nil /\ StoreRecord(h, record)
  BY <1>3, RecordStep
<1>4. CASE StoresClosed
  BY <1>4, ClosedStep
<1> QED BY <1>1, <1>2, <1>3, <1>4 DEF StoresNext

(* Whoever opens it and however often the process dies, a file holds what  *)
(* was acknowledged under its name and the names that share it, and under a*)
(* name that is alone with it each record once.                            *)
THEOREM OneFilePerName == StoresSpec => []FileOfOneName
<1>1. StoresInv => FileOfOneName
  BY DEF StoresInv
<1> QED BY StoresInvInit, StoresInvInductive, <1>1, PTL DEF StoresSpec

-----------------------------------------------------------------------------
(* The store of a name that is alone with its file is the buffer of        *)
(* ApplyOnceBuffer.  Of its steps only Accept is taken: an append is whole *)
(* here, and nobody rewrites these stores.                                 *)

BufferStep(m, n) ==
  [\E record \in StoredRecords : StoreBuffer(m, n)!Accept(record)]_<<files[Named(m, n)],
                                                                     Acked(m, n)>>

LEMMA BufferStarts ==
  ASSUME NEW m \in Media, NEW n \in Names, StoresInit
  PROVE  StoreBuffer(m, n)!AbstractInit
<1>1. files[Named(m, n)] = <<>>
  BY PathsOfNames DEF StoresInit, Named
<1>2. Acked(m, n) = {}
  BY DEF StoresInit, Acked
<1> QED BY <1>1, <1>2 DEF StoreBuffer!AbstractInit

LEMMA BufferStutters ==
  ASSUME NEW m \in Media, NEW n \in Names, UNCHANGED <<files, acked>>
  PROVE  BufferStep(m, n)
<1>1. files[Named(m, n)]' = files[Named(m, n)] /\ Acked(m, n)' = Acked(m, n)
  BY SpelledForGood DEF Acked
<1> QED BY <1>1 DEF BufferStep

(* An append is of a record the file lacks, and to one file.               *)
LEMMA BufferRecords ==
  ASSUME NEW m \in Media, NEW n \in Names, Alone(n), StoresInv,
         NEW h \in Holders, held[h] # Nil, NEW record \in StoredRecords,
         StoreRecord(h, record)
  PROVE  BufferStep(m, n)
<1> PICK s : s = held[h]
  OBVIOUS
<1>1. s \in DOMAIN queues /\ LiveStore(s)
  BY DEF StoresInv
<1> PICK name \in Names : name = s[1]
  BY <1>1 DEF LiveStore
<1> PICK path \in Paths : path = queues[s].path
  BY <1>1 DEF LiveStore, StoreType
<1>2. /\ path.file = SafeFile[name] /\ path.medium \in Media
      /\ path = Named(path.medium, name)
  BY <1>1 DEF LiveStore, Paths, Named
<1>3. \/ UNCHANGED <<files, acked>>
      \/ /\ Alone(name) => record \notin LinesOf(path)
         /\ files' = [files EXCEPT ![path] = Append(@, record)]
         /\ acked' = acked \cup {[medium |-> path.medium, name |-> name, record |-> record]}
  BY <1>1 DEF StoreRecord, LiveStore
<1>4. CASE UNCHANGED <<files, acked>>
  BY <1>4, BufferStutters
<1>5. CASE /\ Alone(name) => record \notin LinesOf(path)
           /\ files' = [files EXCEPT ![path] = Append(@, record)]
           /\ acked' = acked \cup {[medium |-> path.medium, name |-> name, record |-> record]}
  <2> DEFINE entry == [medium |-> path.medium, name |-> name, record |-> record]
  <2>1. acked' = acked \cup {entry}
    BY <1>5
  <2>2. entry.medium = path.medium /\ entry.name = name /\ entry.record = record
    OBVIOUS
  <2> HIDE DEF entry
  <2>3. Named(m, n) \in Paths /\ Named(m, n)' = Named(m, n)
    BY PathsOfNames, SpelledForGood
  <2>4. Named(m, n) = path <=> m = path.medium /\ n = name
    <3>1. SafeFile[name] = SafeFile[n] <=> n = name
      BY WhoSharesAFile DEF Alone
    <3> QED BY <1>2, <3>1 DEF Named
  <2>5. files \in [Paths -> Seq(StoredRecords)]
    BY DEF StoresInv, StoresShape
  <2>6. CASE Named(m, n) = path
    <3>1. files[Named(m, n)]' = Append(files[Named(m, n)], record)
      BY <1>5, <2>3, <2>5, <2>6
    <3>2. Acked(m, n)' = Acked(m, n) \cup {record}
      <4>1. {b \in acked' : b.medium = m /\ b.name = n}
              = {b \in acked : b.medium = m /\ b.name = n} \cup {entry}
        BY <2>1, <2>2, <2>4, <2>6
      <4> QED BY <2>2, <4>1 DEF Acked
    <3>3. \A i \in DOMAIN files[Named(m, n)] : files[Named(m, n)][i] # record
      BY <1>5, <2>4, <2>6 DEF LinesOf
    <3>4. StoreBuffer(m, n)!Accept(record)
      BY <3>1, <3>2, <3>3 DEF StoreBuffer!Accept, StoreBuffer!Range
    <3> QED BY <3>4 DEF BufferStep
  <2>7. CASE Named(m, n) # path
    <3>1. files[Named(m, n)]' = files[Named(m, n)]
      BY <1>5, <2>3, <2>5, <2>7
    <3>2. Acked(m, n)' = Acked(m, n)
      BY <2>1, <2>2, <2>4, <2>7 DEF Acked
    <3> QED BY <3>1, <3>2 DEF BufferStep
  <2> QED BY <2>6, <2>7
<1> QED BY <1>3, <1>4, <1>5

LEMMA BufferSteps ==
  ASSUME NEW m \in Media, NEW n \in Names, Alone(n), StoresInv, [StoresNext]_storeVars
  PROVE  BufferStep(m, n)
<1>1. CASE UNCHANGED storeVars
  BY <1>1, BufferStutters DEF storeVars
<1>2. CASE \E h \in Holders, name \in Names, medium \in Media : DurableStore(h, name, medium)
  BY <1>2, BufferStutters DEF DurableStore
<1>3. CASE \E h \in Holders, record \in StoredRecords : held[h] # Nil /\ StoreRecord(h, record)
  BY <1>3, BufferRecords
<1>4. CASE StoresClosed
  BY <1>4, BufferStutters DEF StoresClosed
<1> QED BY <1>1, <1>2, <1>3, <1>4 DEF StoresNext

(* A step that only accepts is one the buffer promises.                    *)
LEMMA AcceptIsPromised ==
  ASSUME NEW m \in Media, NEW n \in Names, BufferStep(m, n)
  PROVE  [StoreBuffer(m, n)!AbstractNext]_<<files[Named(m, n)], Acked(m, n), {}>>
BY DEF BufferStep, StoreBuffer!AbstractNext

(* The store LocalStorageProvider hands out for a name that is alone with  *)
(* its file is the queue its callers are promised (ApplyOnceBuffer),       *)
(* without the holes: first in, first out, each record once.               *)
THEOREM StoresAreBuffers ==
  ASSUME NEW m \in Media, NEW n \in Names, Alone(n)
  PROVE  StoresSpec => StoreBuffer(m, n)!AbstractSpec
<1>1. StoresInit => StoreBuffer(m, n)!AbstractInit
  BY BufferStarts
<1>2. StoresInv /\ [StoresNext]_storeVars
        => [StoreBuffer(m, n)!AbstractNext]_<<files[Named(m, n)], Acked(m, n), {}>>
  BY BufferSteps, AcceptIsPromised
<1> QED BY <1>1, <1>2, StoresInvInit, StoresInvInductive, PTL
        DEF StoresSpec, StoreBuffer!AbstractSpec

-----------------------------------------------------------------------------
(* The device *)

(* Where the pipeline has an event.                                        *)
Working == {"state", "locate", "locating", "review", "notify me", "notify sister"}

DeviceInv ==
  /\ machine \in Machines
  /\ next \in Nat \ {0}
  /\ pc \in {"off", "open", "warmup", "idle"} \cup Working
  /\ pc \in Working => next \in DOMAIN Events
  /\ pc \notin {"off", "open"} => \A h \in Holders : held[h] # Nil

(* A step of the pipeline: it keeps or retries its event, or is over with  *)
(* it.                                                                     *)
Advances ==
  /\ UNCHANGED machine
  /\ \/ pc' \in Working /\ UNCHANGED next
     \/ pc' = "idle" /\ next' = next + 1

-----------------------------------------------------------------------------
LEMMA EventsStored ==
  /\ \A i \in DOMAIN Events : Events[i] \in StoredRecords
  /\ Keys \subseteq StoredRecords
  /\ \A i \in Nat \ {0} : i <= Len(Events) => i \in DOMAIN Events
  /\ "emitter" \in Holders /\ "second emitter" \in Holders /\ "aggregator" \in Holders
<1>0. Events \in Seq(StoredRecords)
  BY DeviceConstants
<1>1. DOMAIN Events = 1..Len(Events) /\ Len(Events) \in Nat
  BY <1>0
<1>2. \A i \in DOMAIN Events : Events[i] \in StoredRecords
  BY <1>0
<1>3. \A i \in Nat \ {0} : i <= Len(Events) => i \in DOMAIN Events
  BY <1>1
<1> QED BY <1>2, <1>3, DeviceConstants DEF Keys

(* The tier is one of the three.                                           *)
LEMMA MediumOfDevice == ASSUME NEW m PROVE Medium(m) \in Media
<1> DEFINE tiers == Profile!Tiers(ManifestOf(m), m.optIn)
           first(i) == /\ Profile!TierPriority[i] \in tiers
                       /\ \A j \in 1..3 : Profile!TierPriority[j] \in tiers => i <= j
<1>1. "internal" \in tiers
  BY DEF Profile!Tiers
<1>2. /\ Profile!TierPriority[1] = "media_store" /\ Profile!TierPriority[2] = "removable"
      /\ Profile!TierPriority[3] = "internal"
  BY DEF Profile!TierPriority
<1> HIDE DEF tiers
<1>3. \E i \in 1..3 : first(i)
  <2>1. CASE Profile!TierPriority[1] \in tiers
    BY <2>1
  <2>2. CASE Profile!TierPriority[1] \notin tiers /\ Profile!TierPriority[2] \in tiers
    BY <2>2
  <2>3. CASE Profile!TierPriority[1] \notin tiers /\ Profile!TierPriority[2] \notin tiers
    BY <1>1, <1>2, <2>3
  <2> QED BY <2>1, <2>2, <2>3
<1>4. Medium(m) = Profile!TierPriority[CHOOSE i \in 1..3 : first(i)]
  BY DEF Medium, Profile!Tier, tiers
<1> HIDE DEF first
<1>5. (CHOOSE i \in 1..3 : first(i)) \in {1, 2, 3}
  BY <1>3
<1> QED BY <1>2, <1>4, <1>5 DEF Media

LEMMA DeviceInvInit == EdgeInit => DeviceInv
BY DEF EdgeInit, AppInit, DeviceInv, Working

LEMMA EventOverAdvances == ASSUME EventOver PROVE Advances
BY DEF EventOver, Moves, Advances

LEMMA RaisedAdvances == ASSUME NEW transient, Raised(transient) PROVE Advances
BY EventOverAdvances DEF Raised, Moves, Advances, Working

(* Only these actions of the loop touch a store.                           *)
LEMMA PipelineStep ==
  ASSUME \/ StateRaises \/ ModelStep \/ InferAnswers \/ AnswersAtOnce \/ InferTimesOut
         \/ (\E ended \in {"delivered", "transient", "failed"} : Notify(ended))
         \/ (\E d \in Decisions : Reviewed(d))
  PROVE  pc \in Working /\ Advances /\ UNCHANGED storeVars
<1>1. CASE StateRaises
  BY <1>1, RaisedAdvances DEF StateRaises, storeVars, Working
<1>2. CASE ModelStep
  BY <1>2, RaisedAdvances DEF ModelStep, Moves, Advances, Working
<1>3. CASE InferAnswers
  BY <1>3 DEF InferAnswers, Answered, Moves, Advances, Working
<1>4. CASE AnswersAtOnce
  BY <1>4 DEF AnswersAtOnce, Moves, Advances, Working
<1>5. CASE InferTimesOut
  BY <1>5 DEF InferTimesOut, Answered, Moves, Advances, Working
<1>6. CASE \E ended \in {"delivered", "transient", "failed"} : Notify(ended)
  BY <1>6, EventOverAdvances, RaisedAdvances DEF Notify, Working
<1>7. CASE \E d \in Decisions : Reviewed(d)
  BY <1>7, EventOverAdvances DEF Reviewed, Decided, Moves, Advances, Working
<1> QED BY <1>1, <1>2, <1>3, <1>4, <1>5, <1>6, <1>7

LEMMA RoutedAdvances ==
  ASSUME NEW online, NEW count, Routed(online, count) PROVE Advances
BY EventOverAdvances DEF Routed, Moves, Advances, Working

LEMMA AdvancesInv ==
  ASSUME DeviceInv, pc \in Working, Advances, UNCHANGED held
  PROVE  DeviceInv'
<1>1. next' \in Nat \ {0} /\ machine' \in Machines
  BY DEF DeviceInv, Advances
<1>2. pc' \in Working \cup {"idle"} /\ (pc' \in Working => next' \in DOMAIN Events)
  BY DEF DeviceInv, Advances, Working
<1>3. \A h \in Holders : held'[h] # Nil
  BY DEF DeviceInv, Working
<1> QED BY <1>1, <1>2, <1>3 DEF DeviceInv

(* Every step of the device is a step of the stores, or leaves them alone. *)
LEMMA DeviceStep ==
  ASSUME DeviceInv, StoresInv, EdgeNext
  PROVE  [StoresNext]_storeVars /\ DeviceInv'
<1> USE DEF DeviceInv
<1>1. CASE Boot
  BY <1>1 DEF Boot, storeVars, Working
<1>2. ASSUME NEW h \in Holders, OpensStore(h)
      PROVE  [StoresNext]_storeVars /\ DeviceInv'
  <2>1. machine.stores[h] \in Names /\ Medium(machine) \in Media
    BY MediumOfDevice, DeviceConstants
  <2>2. DurableStore(h, machine.stores[h], Medium(machine))
    BY <1>2 DEF OpensStore
  <2>3. StoresNext
    BY <2>1, <2>2 DEF StoresNext
  <2> QED BY <1>2, <2>3 DEF OpensStore, appVars, Working
<1>3. CASE Opened
  BY <1>3 DEF Opened, storeVars, Working
<1>4. CASE WarmsUp
  BY <1>4 DEF WarmsUp, appVars, storeVars
<1>5. CASE OpensForBusiness
  BY <1>5 DEF OpensForBusiness, storeVars, Working
<1>6. CASE ProcessDies
  <2>1. StoresNext
    BY <1>6 DEF ProcessDies, StoresNext
  <2>2. pc' = "off" /\ next' \in {1, next} /\ machine' = machine
    BY <1>6 DEF ProcessDies
  <2>3. next' \in Nat \ {0} /\ machine' \in Machines
    BY <2>2
  <2>4. pc' \notin Working
    BY <2>2 DEF Working
  <2> QED BY <2>1, <2>2, <2>3, <2>4
<1>7. CASE TakeEvent
  <2>1. next \in DOMAIN Events /\ held["emitter"] # Nil /\ StoreRecord("emitter", Event)
    <3>1. pc = "idle" /\ next <= Len(Events) /\ StoreRecord("emitter", Event)
      BY <1>7 DEF TakeEvent
    <3>2. held["emitter"] # Nil
      BY <3>1, EventsStored
    <3> QED BY <3>1, <3>2, EventsStored
  <2>2. StoresNext
    BY <2>1, EventsStored DEF StoresNext, Event
  <2>3. pc' = "state" /\ UNCHANGED <<machine, next, held>>
    BY <1>7 DEF TakeEvent, Moves, StoreRecord
  <2> QED BY <1>7, <2>1, <2>2, <2>3 DEF TakeEvent, Working
<1>8. ASSUME NEW e \in Keys, SecondEmitter(e)
      PROVE  [StoresNext]_storeVars /\ DeviceInv'
  <2>1. StoresNext
    BY <1>8, EventsStored DEF SecondEmitter, StoresNext
  <2> QED BY <1>8, <2>1 DEF SecondEmitter, appVars, StoreRecord
<1>9. ASSUME NEW online \in BOOLEAN, Snapshot(online)
      PROVE  [StoresNext]_storeVars /\ DeviceInv'
  <2>1. pc = "state" /\ next \in DOMAIN Events /\ \A h \in Holders : held[h] # Nil
    BY <1>9 DEF Snapshot, Working
  <2>2. \/ UNCHANGED storeVars /\ EventOver
        \/ StoreRecord("aggregator", Event) /\ \E count : Routed(online, count)
    BY <1>9 DEF Snapshot
  <2>3. CASE UNCHANGED storeVars /\ EventOver
    BY <2>1, <2>3, EventOverAdvances, AdvancesInv DEF storeVars, Working
  <2>4. CASE StoreRecord("aggregator", Event) /\ \E count : Routed(online, count)
    <3>1. StoresNext
      BY <2>1, <2>4, EventsStored DEF StoresNext, Event
    <3>2. Advances /\ held' = held
      BY <2>4, RoutedAdvances DEF StoreRecord
    <3> QED BY <2>1, <3>1, <3>2, AdvancesInv DEF Working
  <2> QED BY <2>2, <2>3, <2>4
<1>10. ASSUME pc \in Working, Advances, UNCHANGED storeVars
       PROVE  [StoresNext]_storeVars /\ DeviceInv'
  BY <1>10, AdvancesInv DEF storeVars
<1>11. CASE Thread
  BY <1>11 DEF Thread, appVars, storeVars
<1>12. CASE ServerChanges
  BY <1>12 DEF ServerChanges, appVars, storeVars
<1> QED
  BY <1>1, <1>2, <1>3, <1>4, <1>5, <1>6, <1>7, <1>8, <1>9, <1>10, <1>11, <1>12, PipelineStep
  DEF EdgeNext, LoopStep

LEMMA DeviceStoresInit == EdgeInit => DeviceInv /\ StoresInv /\ StoresInit
BY DeviceInvInit, StoresInvInit DEF EdgeInit

LEMMA DeviceStoresStep ==
  ASSUME DeviceInv, StoresInv, [EdgeNext]_vars
  PROVE  [StoresNext]_storeVars /\ DeviceInv' /\ StoresInv'
<1>1. CASE UNCHANGED vars
  BY <1>1, StoresInvInductive DEF vars, appVars, DeviceInv, storeVars
<1>2. CASE EdgeNext
  BY <1>2, DeviceStep, StoresInvInductive
<1> QED BY <1>1, <1>2

(* On every device, whatever interrupts it and whoever else writes, a file *)
(* holds what was acknowledged under its name and the names that share it, *)
(* and under a name that is alone with it each record once.                *)
THEOREM DeviceFilesOfOneName == EdgeSpec => []FileOfOneName
<1>1. StoresInv => FileOfOneName
  BY DEF StoresInv
<1> QED BY DeviceStoresInit, DeviceStoresStep, <1>1, PTL DEF EdgeSpec

(* And such a file only grows, at its end and by what it lacks, through any*)
(* retry, second holder, reopened name and death of the process.           *)
THEOREM DeviceStoresAccept == EdgeSpec => StoresOnlyAccept
<1>1. ASSUME StoresInv, [StoresNext]_storeVars
      PROVE  [\A m \in Media, n \in {k \in Names : Alone(k)} :
                [\E record \in StoredRecords : StoreBuffer(m, n)!Accept(record)]_<<
                  files[Named(m, n)], Acked(m, n)>>]_storeVars
  BY <1>1, BufferSteps DEF BufferStep
<1> QED BY DeviceStoresInit, DeviceStoresStep, <1>1, PTL DEF EdgeSpec, StoresOnlyAccept

(* So the store of such a name is, on a device too, the buffer the emitter *)
(* and the aggregator are written against.                                 *)
THEOREM DeviceStoresAreBuffers ==
  ASSUME NEW m \in Media, NEW n \in Names, Alone(n)
  PROVE  EdgeSpec => StoreBuffer(m, n)!AbstractSpec
<1>1. StoresInit => StoreBuffer(m, n)!AbstractInit
  BY BufferStarts
<1>2. ASSUME StoresInv, [StoresNext]_storeVars
      PROVE  [StoreBuffer(m, n)!AbstractNext]_<<files[Named(m, n)], Acked(m, n), {}>>
  BY <1>2, BufferSteps, AcceptIsPromised
<1> QED BY DeviceStoresInit, DeviceStoresStep, <1>1, <1>2, PTL
        DEF EdgeSpec, StoreBuffer!AbstractSpec

-----------------------------------------------------------------------------
(* The server as a warmup sees it *)

WarmInv ==
  /\ warm = [stage |-> warm.stage, state |-> warm.state, available |-> warm.available]
  /\ warm.stage \in {"none", "probe", "recheck", "listed", "done"}
  /\ warm.stage # "none" => server \in seen
  /\ warm.stage \in {"none", "probe", "recheck"} => warm.state = None
  /\ warm.stage # "done" => warm.available = None
  /\ warm.stage \in {"probe", "recheck"} => seen # {"down"}
  /\ ColdIsNotOffline

LEMMA WarmKept ==
  ASSUME WarmInv, UNCHANGED <<warm, seen, server, machine>> PROVE WarmInv'
BY DEF WarmInv, ColdIsNotOffline

LEMMA WarmCleared ==
  ASSUME warm' = Nothing, seen' = {} PROVE WarmInv'
BY ContractOperatorConstants DEF WarmInv, ColdIsNotOffline, Nothing

(* Whatever the server becomes while it is looked at is on record.         *)
LEMMA WarmServerIs ==
  ASSUME WarmInv, NEW s, ServerIs(s), UNCHANGED <<warm, machine>> PROVE WarmInv'
<1>1. CASE warm.stage = "none"
  BY <1>1 DEF WarmInv, ColdIsNotOffline, ServerIs
<1>2. CASE warm.stage # "none"
  <2>1. server' = s /\ seen' = seen \cup {s} /\ server \in seen
    BY <1>2 DEF WarmInv, ServerIs
  <2>2. seen # {"down"} => seen' # {"down"}
    BY <2>1
  <2>3. UNCHANGED <<warm, machine>>
    OBVIOUS
  <2>4. server' \in seen' /\ ("down" \in seen => "down" \in seen')
    BY <2>1
  <2>5. ColdIsNotOffline'
    BY <2>2, <2>3, <2>4 DEF WarmInv, ColdIsNotOffline
  <2>6. QED
    BY <2>2, <2>3, <2>4, <2>5 DEF WarmInv
<1>3. QED
  BY <1>1, <1>2

LEMMA WarmupKeeps ==
  ASSUME WarmInv, NEW x, WarmupStep(x, machine.listing), UNCHANGED machine
  PROVE  WarmInv'
<1>0. None \notin {"problem", "unreachable"}
  BY ContractOperatorConstants
<1>1. CASE WarmupStarts(x)
  <2>1. warm.stage = "none" /\ seen' = {server} /\ UNCHANGED server
    BY <1>1 DEF WarmupStarts
  <2>2. \/ warm' = [stage |-> "done", state |-> "warm", available |-> "unknown"]
        \/ /\ server = "down"
           /\ warm' = [stage |-> "listed", state |-> "unreachable", available |-> None]
        \/ /\ server # "down"
           /\ warm' = [stage |-> "probe", state |-> None, available |-> None]
    <3>1. CASE ~Asks(x)
      BY <1>1, <3>1 DEF WarmupStarts, Nothing
    <3>2. CASE Asks(x) /\ server = "down"
      <4>1. Health # None
        BY <1>0, <3>2 DEF Health
      <4>2. warm' = [Nothing EXCEPT !.stage = "listed", !.state = "unreachable"]
        BY <1>1, <3>2, <4>1 DEF WarmupStarts
      <4>3. QED
        BY <3>2, <4>2 DEF Nothing
    <3>3. CASE Asks(x) /\ server # "down"
      <4>1. Health = None
        BY <3>3 DEF Health
      <4>2. warm' = [Nothing EXCEPT !.stage = "probe"]
        BY <1>1, <3>3, <4>1 DEF WarmupStarts
      <4>3. QED
        BY <3>3, <4>2 DEF Nothing
    <3>4. QED
      BY <3>1, <3>2, <3>3
  <2>3. QED
    BY <1>0, <2>1, <2>2 DEF WarmInv, ColdIsNotOffline
<1>2. CASE ProbeAnswers
  <2>1. /\ warm.stage = "probe" /\ server' = "ready" /\ seen' = seen \cup {"ready"}
        /\ \E state \in {"cold_started", "warm"} :
             warm' = [warm EXCEPT !.stage = "listed", !.state = state]
    BY <1>2 DEF ProbeAnswers, ServerIs, WarmupEnds
  <2>2. \E state \in {"cold_started", "warm"} :
          warm' = [stage |-> "listed", state |-> state, available |-> None]
    BY <2>1 DEF WarmInv
  <2>3. "ready" \in seen' /\ seen' # {"down"}
    BY <2>1
  <2>4. QED
    BY <1>0, <2>1, <2>2, <2>3 DEF WarmInv, ColdIsNotOffline
<1>3. CASE ProbeFails
  <2>1. /\ warm.stage = "probe" /\ UNCHANGED <<server, seen>>
        /\ warm' = [stage |-> "recheck", state |-> None, available |-> None]
    BY <1>3 DEF ProbeFails, WarmInv
  <2>2. QED
    BY <1>0, <2>1 DEF WarmInv, ColdIsNotOffline
<1>4. CASE Recheck
  <2>1. /\ warm.stage = "recheck" /\ UNCHANGED <<server, seen>>
        /\ warm' = [stage |-> "listed", available |-> None,
                    state |-> IF server = "down" THEN "unreachable" ELSE "cold_started"]
    BY <1>0, <1>4 DEF Recheck, WarmupEnds, Health, WarmInv
  <2>2. QED
    BY <1>0, <2>1 DEF WarmInv, ColdIsNotOffline
<1>5. CASE ModelAvailable(x, machine.listing)
  <2> DEFINE listing == IF server = "down" THEN None ELSE machine.listing
             told == Availability(x.model, listing)
  <2>1. /\ warm.stage = "listed" /\ UNCHANGED <<server, seen>>
        /\ warm' = [stage |-> "done", state |-> warm.state, available |-> told]
    BY <1>5 DEF ModelAvailable, WarmInv
  <2>2. told = "unreachable" => listing = None
    BY DEF Availability
  <2>3. told = "unreachable" => server = "down" \/ machine.listing = None
    BY <2>2
  <2> HIDE DEF told
  <2>4. QED
    BY <2>1, <2>3 DEF WarmInv, ColdIsNotOffline
<1>6. QED
  BY <1>1, <1>2, <1>3, <1>4, <1>5 DEF WarmupStep

LEMMA WarmStep ==
  ASSUME WarmInv, EdgeNext PROVE WarmInv'
<1>1. CASE ProcessDies \/ OpensForBusiness
  BY <1>1, WarmCleared DEF ProcessDies, OpensForBusiness
<1>2. CASE WarmsUp
  BY <1>2, WarmupKeeps DEF WarmsUp, appVars
<1>3. CASE ServerChanges
  <2>1. UNCHANGED <<warm, machine>> /\ \E s : ServerIs(s)
    BY <1>3 DEF ServerChanges, ServerMoves, appVars
  <2>2. QED
    BY <2>1, WarmServerIs
<1>4. CASE Thread
  <2>1. UNCHANGED <<warm, machine>> /\ (UNCHANGED <<server, seen>> \/ ServerIs("ready"))
    <3>1. UNCHANGED machine
      BY <1>4 DEF Thread, appVars
    <3>2. ASSUME NEW c, ExtractScripted(c, node.extractor)
          PROVE  UNCHANGED <<warm, server, seen>>
      BY <3>2 DEF ExtractScripted
    <3>3. ASSUME NEW c, NEW response, ExtractHears(c, node.extractor, response)
          PROVE  UNCHANGED warm /\ (UNCHANGED <<server, seen>> \/ ServerIs("ready"))
      BY <3>3 DEF ExtractHears
    <3>4. QED
      BY <1>4, <3>1, <3>2, <3>3 DEF Thread, serverVars
  <2>2. QED
    BY <2>1, WarmKept, WarmServerIs
<1>5. CASE Boot \/ Opened \/ (\E h \in Holders : OpensStore(h)) \/ (\E e \in Keys : SecondEmitter(e))
  BY <1>5, WarmKept DEF Boot, Opened, OpensStore, SecondEmitter, appVars, serverVars
<1>6. CASE ModelStep
  <2>1. UNCHANGED <<machine, warm, server, seen>>
    <3>1. ASSUME NEW transient, Raised(transient)
          PROVE  UNCHANGED machine
      BY <3>1 DEF Raised, EventOver, Moves
    <3>2. QED
      BY <1>6, <3>1 DEF ModelStep, Moves, serverVars, Infer
  <2>2. QED
    BY <2>1, WarmKept
<1>7. ASSUME UNCHANGED <<machine, serverVars>>
      PROVE  WarmInv'
  BY <1>7, WarmKept DEF serverVars
<1>8. CASE StateRaises \/ InferAnswers \/ AnswersAtOnce \/ InferTimesOut
           \/ (\E ended \in {"delivered", "transient", "failed"} : Notify(ended))
           \/ (\E d \in Decisions : Reviewed(d))
  <2>1. UNCHANGED machine
    BY <1>8, PipelineStep DEF Advances
  <2>2. UNCHANGED serverVars
    BY <1>8 DEF StateRaises, InferAnswers, AnswersAtOnce, InferTimesOut, Notify, Reviewed, Decided
  <2>3. QED
    BY <1>7, <2>1, <2>2
<1>9. CASE TakeEvent
  BY <1>7, <1>9 DEF TakeEvent, Moves
<1>10. CASE \E online \in BOOLEAN : Snapshot(online)
  <2>1. UNCHANGED serverVars
    BY <1>10 DEF Snapshot
  <2>2. UNCHANGED machine
    <3>1. EventOver \/ \E online, count : Routed(online, count)
      BY <1>10 DEF Snapshot
    <3>2. QED
      BY <3>1, EventOverAdvances, RoutedAdvances DEF Advances
  <2>3. QED
    BY <1>7, <2>1, <2>2
<1>11. QED
  BY <1>1, <1>2, <1>3, <1>4, <1>5, <1>6, <1>8, <1>9, <1>10 DEF EdgeNext, LoopStep

(* A server that loads its model is never reported as one that is not      *)
(* there, nor the other way round (warmup.py; engine.py: warmup): whenever *)
(* it drops, comes back or unloads between the checks of a warmup.         *)
THEOREM ColdAndOffline == EdgeSpec => []ColdIsNotOffline
<1>1. EdgeInit => WarmInv
  BY ContractOperatorConstants DEF EdgeInit, ServerInit, WarmInv, ColdIsNotOffline, Nothing
<1>2. WarmInv /\ [EdgeNext]_vars => WarmInv'
  <2>1. CASE UNCHANGED vars
    BY <2>1, WarmKept DEF vars, appVars, serverVars
  <2>2. CASE EdgeNext
    BY <2>2, WarmStep
  <2>3. QED
    BY <2>1, <2>2
<1>3. WarmInv => ColdIsNotOffline
  BY DEF WarmInv
<1>4. QED
  BY <1>1, <1>2, <1>3, PTL DEF EdgeSpec
-----------------------------------------------------------------------------
(* The stores of a device that did not opt in *)

(* The tier such a device always chooses.                                  *)
Home(m) == IF m.mediaStore THEN "media_store" ELSE "internal"

HomeInv ==
  /\ \A h \in Holders : held[h] # Nil => held[h][1] = machine.stores[h]
  /\ ~machine.optIn =>
       /\ \A a \in acked : a.medium = Home(machine)
       /\ \A i \in DOMAIN queues : queues[i].path.medium = Home(machine)

LEMMA HomeOfDevice == ASSUME NEW m, ~m.optIn PROVE Medium(m) = Home(m)
<1> DEFINE tiers == Profile!Tiers(ManifestOf(m), m.optIn)
           first(i) == /\ Profile!TierPriority[i] \in tiers
                       /\ \A j \in 1..3 : Profile!TierPriority[j] \in tiers => i <= j
<1>1. tiers = {"internal"} \cup IF m.mediaStore THEN {"media_store"} ELSE {}
  BY DEF Profile!Tiers, Profile!Manifest, ManifestOf
<1>2. /\ Profile!TierPriority[1] = "media_store" /\ Profile!TierPriority[2] = "removable"
      /\ Profile!TierPriority[3] = "internal"
  BY DEF Profile!TierPriority
<1>3. Medium(m) = Profile!TierPriority[CHOOSE i \in 1..3 : first(i)]
  BY DEF Medium, Profile!Tier
<1> HIDE DEF tiers
<1>4. CASE m.mediaStore
  <2>1. first(1) /\ \A i \in 1..3 : first(i) => i = 1
    BY <1>1, <1>2, <1>4
  <2> HIDE DEF first
  <2>2. (CHOOSE i \in 1..3 : first(i)) = 1
    BY <2>1
  <2>3. QED
    BY <1>2, <1>3, <1>4, <2>2 DEF Home
<1>5. CASE ~m.mediaStore
  <2>1. first(3) /\ \A i \in 1..3 : first(i) => i = 3
    BY <1>1, <1>2, <1>5
  <2> HIDE DEF first
  <2>2. (CHOOSE i \in 1..3 : first(i)) = 3
    BY <2>1
  <2>3. QED
    BY <1>2, <1>3, <1>5, <2>2 DEF Home
<1>6. QED
  BY <1>4, <1>5

LEMMA HomeOpens ==
  ASSUME DeviceInv, StoresInv, HomeInv, NEW h \in Holders, OpensStore(h)
  PROVE  HomeInv'
<1> DEFINE name == machine.stores[h]
           new == NewStore(name)
<1>1. /\ DurableStore(h, name, Medium(machine)) /\ UNCHANGED machine
      /\ UNCHANGED <<files, acked>>
  BY DEF OpensStore, appVars, DurableStore
<1>2. name \in Names /\ held = [g \in Holders |-> held[g]]
  <2>1. machine \in Machines
    BY DEF DeviceInv
  <2>2. machine.stores \in [Holders -> Names]
    BY <2>1, DeviceConstants
  <2>3. held = [g \in Holders |-> held[g]]
    BY DEF StoresInv, StoresShape
  <2>4. QED
    BY <2>2, <2>3
<1>3. new[1] = name
  BY DEF NewStore
<1>4. \/ /\ memo[name] # Nil /\ UNCHANGED queues
         /\ held' = [held EXCEPT ![h] = memo[name]]
      \/ /\ queues' = [i \in DOMAIN queues \cup {new} |->
              IF i \in DOMAIN queues THEN queues[i]
              ELSE [path |-> [medium |-> Medium(machine), file |-> SafeFile[name]],
                    index |-> Nil]]
         /\ held' = [held EXCEPT ![h] = new]
  BY <1>1 DEF DurableStore
<1> HIDE DEF new
<1>5. memo[name] # Nil => memo[name][1] = name
  BY <1>2 DEF StoresInv
<1>6. held'[h][1] = name /\ \A g \in Holders \ {h} : held'[g] = held[g]
  BY <1>2, <1>3, <1>4, <1>5
<1>7. ~machine.optIn => \A i \in DOMAIN queues' : queues'[i].path.medium = Home(machine)
  BY <1>4, HomeOfDevice DEF HomeInv
<1>8. QED
  BY <1>1, <1>6, <1>7 DEF HomeInv

LEMMA HomeRecords ==
  ASSUME StoresInv, HomeInv, NEW h \in Holders, held[h] # Nil,
         NEW record, StoreRecord(h, record), UNCHANGED machine
  PROVE  HomeInv'
<1>1. /\ held' = held /\ held[h] \in DOMAIN queues
      /\ \E index : queues' = [queues EXCEPT ![held[h]].index = index]
      /\ \/ acked' = acked
         \/ \E n : acked' = acked \cup {[medium |-> queues[held[h]].path.medium, name |-> n,
                                         record |-> record]}
  BY DEF StoreRecord, StoresInv
<1>2. \A i \in DOMAIN queues : queues[i] = [path |-> queues[i].path, index |-> queues[i].index]
  BY DEF StoresInv, LiveStore, StoreType
<1>3. DOMAIN queues' = DOMAIN queues
  BY <1>1
<1>4. \A i \in DOMAIN queues : queues'[i].path = queues[i].path
  BY <1>1, <1>2
<1>5. QED
  BY <1>1, <1>3, <1>4 DEF HomeInv

LEMMA HomeStep ==
  ASSUME DeviceInv, StoresInv, HomeInv, EdgeNext PROVE HomeInv'
<1>1. ASSUME UNCHANGED <<machine, storeVars>>
      PROVE  HomeInv'
  BY <1>1 DEF HomeInv, storeVars
<1>2. ASSUME NEW h \in Holders, OpensStore(h)
      PROVE  HomeInv'
  BY <1>2, HomeOpens
<1>3. CASE ProcessDies
  BY <1>3 DEF ProcessDies, StoresClosed, HomeInv
<1>4. ASSUME pc \in Working, Advances, UNCHANGED storeVars
      PROVE  HomeInv'
  BY <1>1, <1>4 DEF Advances
<1>5. CASE TakeEvent
  <2>1. StoreRecord("emitter", Event) /\ UNCHANGED machine /\ pc = "idle"
    BY <1>5 DEF TakeEvent, Moves
  <2>2. held["emitter"] # Nil
    BY <2>1, EventsStored DEF DeviceInv
  <2>3. QED
    BY <2>1, <2>2, EventsStored, HomeRecords
<1>6. ASSUME NEW e \in Keys, SecondEmitter(e)
      PROVE  HomeInv'
  <2>1. StoreRecord("second emitter", e) /\ UNCHANGED machine /\ pc = "idle"
    BY <1>6 DEF SecondEmitter, appVars
  <2>2. held["second emitter"] # Nil
    BY <2>1, EventsStored DEF DeviceInv
  <2>3. QED
    BY <2>1, <2>2, EventsStored, HomeRecords
<1>7. ASSUME NEW online \in BOOLEAN, Snapshot(online)
      PROVE  HomeInv'
  <2>1. /\ pc = "state"
        /\ \/ UNCHANGED storeVars /\ EventOver
           \/ StoreRecord("aggregator", Event) /\ \E count : Routed(online, count)
    BY <1>7 DEF Snapshot
  <2>2. UNCHANGED machine
    BY <2>1, EventOverAdvances, RoutedAdvances DEF Advances
  <2>3. held["aggregator"] # Nil
    BY <2>1, EventsStored DEF DeviceInv
  <2>4. QED
    BY <1>1, <2>1, <2>2, <2>3, EventsStored, HomeRecords
<1>8. CASE Boot \/ Opened \/ WarmsUp \/ OpensForBusiness \/ Thread \/ ServerChanges
  <2>1. UNCHANGED <<machine, storeVars>>
    BY <1>8 DEF Boot, Opened, WarmsUp, OpensForBusiness, Thread, ServerChanges, appVars
  <2>2. QED
    BY <1>1, <2>1
<1>9. QED
  BY <1>2, <1>3, <1>4, <1>5, <1>6, <1>7, <1>8, PipelineStep DEF EdgeNext, LoopStep

(* All that was ever acknowledged under the name of a store is in its file.*)
LEMMA HomeKeepsRecords ==
  ASSUME DeviceInv, StoresInv, HomeInv, ~machine.optIn, NEW h \in Holders, held[h] # Nil
  PROVE  LinesOf(queues[held[h]].path) = UNION {AckedIn(m, machine.stores[h]) : m \in Media}
<1> DEFINE n == machine.stores[h]
           home == Home(machine)
<1>1. /\ held[h] \in DOMAIN queues /\ held[h][1] = n
      /\ queues[held[h]].path.medium = home
  BY DEF StoresInv, HomeInv
<1>2. /\ n \in Names /\ queues[held[h]].path \in Paths
      /\ queues[held[h]].path.file = SafeFile[n]
  BY <1>1 DEF StoresInv, LiveStore, StoreType
<1>3. queues[held[h]].path = Named(home, n) /\ home \in Media
  BY <1>1, <1>2 DEF Paths, Named
<1>4. LinesOf(queues[held[h]].path) = AckedIn(home, n)
  BY <1>2, <1>3 DEF StoresInv, FileOfOneName
<1>5. \A m \in Media : m # home => AckedIn(m, n) = {}
  BY DEF HomeInv, Acked, AckedIn
<1> HIDE DEF home, n
<1>6. UNION {AckedIn(m, n) : m \in Media} = AckedIn(home, n)
  BY <1>3, <1>5
<1>7. QED
  BY <1>4, <1>6 DEF n
-----------------------------------------------------------------------------
(* The loop and its calls *)

LoopInv ==
  /\ pc = "off" => node = None
  /\ attempt \in 0..MaxAttempts
  /\ attempt = 0 <=> pc \in {"off", "open", "warmup", "idle"}
  /\ result # None => pc \in {"locating", "review", "notify me", "notify sister"}

(* Nothing disturbs the operator of a device but its deadline, and only the*)
(* pipeline calls it: it waits for one call at a time.                     *)
CallInv ==
  /\ OperatorInv /\ closes = 0 /\ disturbed = {}
  /\ pc # "locating" => \A c \in Calls : ~Waiting(c)
  /\ pc = "locating" => /\ result.call \in Calls /\ Waiting(result.call)
                        /\ \A c \in Calls : Waiting(c) => c = result.call

(* How extract ended is what it makes of the response it heard.            *)
HonestInv ==
  /\ heard \in [Calls -> {None, NotText} \cup Said]
  /\ \A c \in Calls : Waiting(c) /\ future[c] = "finished" => raw[c] = Extracted(heard[c])
  /\ pc = "locating" => result = [call |-> result.call, inner |-> None, seen |-> None]
  /\ HonestReason

(* The model step, when the schema is no obstacle.                         *)
CallStarts ==
  LET c == CHOOSE d \in Calls : ~Waiting(d) /\ future[d] \notin {"pending", "running"} IN
  /\ pc = "locate" /\ Infer(c) /\ Moves("locating") /\ UNCHANGED <<next, attempt>>
  /\ result' = [call |-> c, inner |-> None, seen |-> None]

(* A step that has nothing to do with a call.                              *)
Elsewhere ==
  /\ UNCHANGED <<operatorVars, heard, machine>>
  /\ \/ UNCHANGED <<pc, result, node>>
     \/ /\ pc # "locating" /\ pc' # "locating"
        /\ \/ UNCHANGED <<result, node>>
           \/ result' = None
           \/ result'.inner = None

LEMMA Attempts == MaxAttempts \in Nat /\ 0 \in 0..MaxAttempts /\ 1 \in 0..MaxAttempts
<1>1. MaxAttempts \in Nat \ {0}
  BY DeviceConstants
<1>2. QED
  BY <1>1

LEMMA LoopOver ==
  ASSUME EventOver
  PROVE  LoopInv' /\ UNCHANGED <<machine, node>> /\ result' = None /\ pc' = "idle"
<1>1. pc' = "idle" /\ attempt' = 0 /\ result' = None /\ UNCHANGED <<machine, node>>
  BY DEF EventOver, Moves
<1>2. QED
  BY <1>1, Attempts DEF LoopInv

LEMMA LoopRaised ==
  ASSUME LoopInv, pc \in Working, NEW transient, Raised(transient)
  PROVE  LoopInv' /\ UNCHANGED <<machine, node>> /\ result' = None /\ pc' \in {"idle", "state"}
<1>1. CASE EventOver
  BY <1>1, LoopOver
<1>2. CASE /\ ShouldRetry(attempt) /\ Moves("state") /\ attempt' = attempt + 1
           /\ result' = None
  <2>1. /\ pc' = "state" /\ attempt' = attempt + 1 /\ result' = None
        /\ UNCHANGED <<machine, node>> /\ attempt < MaxAttempts
    BY <1>2 DEF Moves, ShouldRetry
  <2>2. attempt' \in 0..MaxAttempts /\ attempt' # 0
    <3>1. attempt \in 0..MaxAttempts /\ MaxAttempts \in Nat
      BY Attempts DEF LoopInv
    <3>2. attempt + 1 \in 0..MaxAttempts /\ attempt + 1 # 0
      BY <2>1, <3>1
    <3>3. QED
      BY <2>1, <3>2
  <2>3. QED
    BY <2>1, <2>2 DEF LoopInv
<1>3. QED
  BY <1>1, <1>2 DEF Raised

(* A move from one place of the pipeline to another.                       *)
LEMMA LoopMoves ==
  ASSUME LoopInv, pc \in Working, pc' \in Working \ {"state"}, UNCHANGED attempt,
         result' # None => pc' # "locate"
  PROVE  LoopInv'
BY DEF LoopInv, Working

LEMMA RoutedMoves ==
  ASSUME LoopInv, pc = "state", NEW online, NEW count, Routed(online, count)
  PROVE  LoopInv' /\ result' = None /\ pc' # "locating" /\ UNCHANGED <<machine, node>>
<1>1. CASE EventOver
  BY <1>1, LoopOver
<1>2. CASE /\ Moves("locate") \/ Moves("notify me")
           /\ UNCHANGED <<next, attempt, result>>
  BY <1>2, LoopMoves DEF Moves, LoopInv, Working
<1>3. QED
  BY <1>1, <1>2 DEF Routed

LEMMA LoopStepsAt ==
  ASSUME LoopInv, EdgeNext
  PROVE  /\ LoopInv'
         /\ Elsewhere \/ ProcessDies \/ CallStarts \/ InferAnswers \/ InferTimesOut \/ Thread
<1>1. CASE Boot
  <2>1. /\ pc = "off" /\ UNCHANGED <<machine, attempt, result, operatorVars, heard>>
        /\ pc' = IF node' = None THEN "off" ELSE "open"
    BY <1>1 DEF Boot, serverVars
  <2>2. result = None
    BY <2>1 DEF LoopInv
  <2>3. QED
    BY <2>1, <2>2 DEF LoopInv, Elsewhere
<1>2. CASE Opened \/ OpensForBusiness
  BY <1>2 DEF Opened, OpensForBusiness, LoopInv, Elsewhere, serverVars
<1>3. CASE ProcessDies
  BY <1>3, Attempts DEF ProcessDies, LoopInv
<1>4. ASSUME UNCHANGED appVars
      PROVE  LoopInv'
  BY <1>4 DEF appVars, LoopInv
<1>5. CASE WarmsUp
  <2>1. UNCHANGED <<appVars, operatorVars, heard>>
    BY <1>5 DEF WarmsUp, WarmupStep, WarmupStarts, ProbeAnswers, ProbeFails, Recheck, ModelAvailable
  <2>2. QED
    BY <1>4, <2>1 DEF Elsewhere, appVars
<1>6. CASE ServerChanges
  <2>1. UNCHANGED <<appVars, operatorVars, heard>>
    BY <1>6 DEF ServerChanges, ServerMoves
  <2>2. QED
    BY <1>4, <2>1 DEF Elsewhere, appVars
<1>7. CASE Thread
  BY <1>4, <1>7 DEF Thread
<1>8. CASE (\E h \in Holders : OpensStore(h)) \/ (\E e \in Keys : SecondEmitter(e))
  <2>1. UNCHANGED <<appVars, operatorVars, heard>>
    BY <1>8 DEF OpensStore, SecondEmitter, serverVars
  <2>2. QED
    BY <1>4, <2>1 DEF Elsewhere, appVars
<1>9. CASE TakeEvent
  <2>1. /\ pc = "idle" /\ pc' = "state" /\ attempt' = 1
        /\ UNCHANGED <<machine, node, result, operatorVars, heard>>
    BY <1>9 DEF TakeEvent, Moves, serverVars
  <2>2. QED
    BY <2>1, Attempts DEF LoopInv, Elsewhere
<1>10. CASE StateRaises
  <2>1. /\ pc = "state" /\ UNCHANGED <<operatorVars, heard>>
        /\ \E transient : Raised(transient)
    BY <1>10 DEF StateRaises, serverVars
  <2>2. QED
    BY <2>1, LoopRaised DEF Elsewhere, Working
<1>11. CASE \E online \in BOOLEAN : Snapshot(online)
  <2>1. /\ pc = "state" /\ UNCHANGED <<operatorVars, heard>>
        /\ EventOver \/ \E online, count : Routed(online, count)
    BY <1>11 DEF Snapshot, serverVars
  <2>2. QED
    BY <2>1, LoopOver, RoutedMoves DEF Elsewhere
<1>12. CASE ModelStep
  <2>1. pc = "locate"
    BY <1>12 DEF ModelStep
  <2>2. \/ Raised(FALSE) /\ UNCHANGED <<operatorVars, heard>>
        \/ CallStarts
    BY <1>12 DEF ModelStep, CallStarts, serverVars
  <2>3. CASE Raised(FALSE) /\ UNCHANGED <<operatorVars, heard>>
    BY <2>1, <2>3, LoopRaised DEF Elsewhere, Working
  <2>4. CASE CallStarts
    <3>1. pc' = "locating" /\ UNCHANGED attempt
      BY <2>4 DEF CallStarts, Moves
    <3>2. QED
      BY <2>1, <2>4, <3>1, LoopMoves DEF Working
  <2>5. QED
    BY <2>2, <2>3, <2>4
<1>13. CASE InferAnswers
  <2>1. pc = "locating" /\ pc' = "review" /\ UNCHANGED attempt
    BY <1>13 DEF InferAnswers, Answered, Moves
  <2>2. QED
    BY <1>13, <2>1, LoopMoves DEF Working
<1>14. CASE InferTimesOut
  <2>1. pc = "locating" /\ pc' = "review" /\ UNCHANGED attempt
    BY <1>14 DEF InferTimesOut, Answered, Moves
  <2>2. QED
    BY <1>14, <2>1, LoopMoves DEF Working
<1>15. CASE AnswersAtOnce
  <2>1. /\ pc = "locate" /\ pc' = "review"
        /\ UNCHANGED <<machine, attempt, operatorVars, heard>>
        /\ \E located : result' = [call |-> None, inner |-> None, seen |-> located]
    BY <1>15 DEF AnswersAtOnce, Moves, serverVars
  <2>2. result'.inner = None
    BY <2>1
  <2>3. QED
    BY <2>1, <2>2, LoopMoves DEF Elsewhere, Working
<1>16. CASE \E d \in Decisions : Reviewed(d)
  <2>1. /\ pc = "review" /\ UNCHANGED <<operatorVars, heard>>
        /\ \/ EventOver
           \/ (Moves("notify me") \/ Moves("notify sister")) /\ UNCHANGED <<next, attempt, result>>
    BY <1>16 DEF Reviewed, Decided, serverVars
  <2>2. CASE EventOver
    BY <2>1, <2>2, LoopOver DEF Elsewhere
  <2>3. CASE (Moves("notify me") \/ Moves("notify sister")) /\ UNCHANGED <<next, attempt, result>>
    BY <2>1, <2>3, LoopMoves DEF Elsewhere, Moves, Working
  <2>4. QED
    BY <2>1, <2>2, <2>3
<1>17. CASE \E ended \in {"delivered", "transient", "failed"} : Notify(ended)
  <2>1. /\ pc \in {"notify me", "notify sister"} /\ UNCHANGED <<operatorVars, heard>>
        /\ EventOver \/ \E transient : Raised(transient)
    BY <1>17 DEF Notify, serverVars
  <2>2. QED
    BY <2>1, LoopOver, LoopRaised DEF Elsewhere, Working
<1>18. QED
  BY <1>1, <1>2, <1>3, <1>5, <1>6, <1>7, <1>8, <1>9, <1>10, <1>11, <1>12, <1>13, <1>14, <1>15,
     <1>16, <1>17 DEF EdgeNext, LoopStep

(* A call left behind on the thread leaves another one free.               *)
LEMMA FreeCall ==
  ASSUME CallInv, pc = "locate", NEW c,
         c = CHOOSE d \in Calls : ~Waiting(d) /\ future[d] \notin {"pending", "running"}
  PROVE  c \in Calls /\ ~Waiting(c) /\ future[c] \notin {"pending", "running"}
<1>1. PICK a \in Calls, b \in Calls : a # b
  BY DeviceConstants
<1>2. Orphans = {}
  <2>1. Cardinality(Orphans) = 0
    BY OrphansFinite DEF CallInv, OperatorInv
  <2>2. QED
    BY <2>1, OrphansFinite, FS_EmptySet
<1>3. \A d \in Calls : ~Waiting(d) /\ future[d] # "pending"
  BY DEF CallInv, OperatorInv
<1>4. \A d \in Calls : future[d] = "running" => d = worker
  BY <1>2 DEF Orphans
<1>5. \E d \in Calls : ~Waiting(d) /\ future[d] \notin {"pending", "running"}
  BY <1>1, <1>3, <1>4
<1>6. QED
  BY <1>5

LEMMA ExtractedEnds ==
  ASSUME NEW r \in {None, NotText} \cup Said PROVE Extracted(r) \in Ends
<1>1. \A how \in {"transport", "unparseable"} : Failed(how) \in Ends
  BY ContractOperatorConstants DEF Failed, Ends
<1>2. ASSUME IsMessage(r), ContentOf(r) \notin {None, NotText}
      PROVE  ContentOf(r) \in Outputs
  BY <1>2, ContractOperatorConstants DEF IsMessage, ContentOf, Said
<1>3. QED
  BY <1>1, <1>2 DEF Extracted, Ends

(* The thread of a call, as far as its caller sees.                        *)
LEMMA ThreadSteps ==
  ASSUME Thread
  PROVE  /\ UNCHANGED <<appVars, storeVars>>
         /\ \/ WorkerTakes /\ UNCHANGED heard
            \/ \E c \in Calls, r \in {None, NotText} \cup Said :
                 /\ ExtractEnds(c, Extracted(r)) /\ Extracted(r) \in Ends
                 /\ heard' = [heard EXCEPT ![c] = IF Waiting(c) THEN r ELSE @]
<1>1. UNCHANGED <<appVars, storeVars>>
  BY DEF Thread
<1>2. CASE WorkerTakes /\ UNCHANGED serverVars
  BY <1>1, <1>2 DEF serverVars
<1>3. ASSUME NEW c \in Calls, ExtractScripted(c, node.extractor)
      PROVE  \E r \in {None, NotText} \cup Said :
               /\ ExtractEnds(c, Extracted(r)) /\ Extracted(r) \in Ends
               /\ heard' = [heard EXCEPT ![c] = IF Waiting(c) THEN r ELSE @]
  <2> DEFINE r == [body |-> Scripted, think |-> "none"]
  <2>1. r \in Said
    BY ContractOperatorConstants DEF Said
  <2>2. r \notin {None, NotText} /\ Scripted \notin {None, NotText}
    BY <2>1, ContractOperatorConstants, OperatorConstants
  <2>3. ContentOf(r) = Scripted
    BY DEF ContentOf
  <2>4. Extracted(r) = [how |-> "output", anchors |-> Scripted]
    BY <2>2, <2>3 DEF Extracted, IsMessage
  <2>5. ExtractEnds(c, Extracted(r)) /\ heard' = [heard EXCEPT ![c] = IF Waiting(c) THEN r ELSE @]
    BY <1>3, <2>4 DEF ExtractScripted
  <2> HIDE DEF r
  <2>6. QED
    BY <2>1, <2>5, ExtractedEnds
<1>4. ASSUME NEW c \in Calls,
             NEW response \in {None} \cup IF Asks(node.extractor) THEN Responses(node.extractor) ELSE {},
             ExtractHears(c, node.extractor, response)
      PROVE  \E r \in {None, NotText} \cup Said :
               /\ ExtractEnds(c, Extracted(r)) /\ Extracted(r) \in Ends
               /\ heard' = [heard EXCEPT ![c] = IF Waiting(c) THEN r ELSE @]
  <2>1. Responses(node.extractor) \subseteq {NotText} \cup Said
    BY DEF Responses, Said
  <2>2. response \in {None, NotText} \cup Said
    BY <2>1
  <2>3. ExtractEnds(c, Extracted(response))
        /\ heard' = [heard EXCEPT ![c] = IF Waiting(c) THEN response ELSE @]
    BY <1>4 DEF ExtractHears
  <2>4. QED
    BY <2>2, <2>3, ExtractedEnds
<1>5. QED
  BY <1>1, <1>2, <1>3, <1>4 DEF Thread

LEMMA CallStep ==
  ASSUME LoopInv, CallInv, EdgeNext PROVE CallInv'
<1>1. CASE Elsewhere
  <2>1. UNCHANGED operatorVars /\ (UNCHANGED <<pc, result>> \/ (pc # "locating" /\ pc' # "locating"))
    BY <1>1 DEF Elsewhere
  <2>2. OperatorInv'
    BY <2>1, OperatorKept DEF CallInv
  <2>3. QED
    BY <2>1, <2>2 DEF CallInv, operatorVars, Waiting
<1>2. CASE ProcessDies
  <2>1. /\ pc' = "off" /\ queue' = <<>> /\ worker' = None /\ disturbed' = {} /\ closes' = closes
        /\ future' = [c \in Calls |-> "none"] /\ raw' = [c \in Calls |-> None]
        /\ infer' = [c \in Calls |-> "new"]
    BY <1>2 DEF ProcessDies
  <2>2. Orphans' = {}
    BY <2>1 DEF Orphans
  <2>3. Cardinality(Orphans') = 0
    BY <2>2, FS_EmptySet
  <2>4. OperatorInv'
    BY <2>1, <2>3 DEF CallInv, OperatorInv, Waiting
  <2>5. QED
    BY <2>1, <2>4 DEF CallInv, Waiting
<1>3. CASE CallStarts
  <2>1. PICK c : /\ c = CHOOSE d \in Calls : ~Waiting(d) /\ future[d] \notin {"pending", "running"}
                 /\ pc = "locate" /\ InferStart(c) /\ pc' = "locating"
                 /\ result' = [call |-> c, inner |-> None, seen |-> None]
    BY <1>3 DEF CallStarts, Infer, Moves
  <2>2. c \in Calls /\ c \notin disturbed
    BY <2>1, FreeCall DEF CallInv
  <2>3. OperatorInv'
    BY <2>1, <2>2, InferStartKeeps DEF CallInv
  <2>4. infer' = [infer EXCEPT ![c] = "waiting"] /\ UNCHANGED <<closes, disturbed>>
    BY <2>1 DEF InferStart
  <2>5. \A d \in Calls : Waiting(d)' <=> d = c
    <3>1. infer \in [Calls -> {"new", "waiting", "returned", "raised"}]
      BY DEF CallInv, OperatorInv
    <3>2. \A d \in Calls : ~Waiting(d)
      BY <2>1 DEF CallInv
    <3>3. QED
      BY <2>2, <2>4, <3>1, <3>2 DEF Waiting
  <2>6. pc' = "locating" /\ result'.call = c
    BY <2>1
  <2>7. closes' = 0 /\ disturbed' = {}
    BY <2>4 DEF CallInv
  <2>8. QED
    BY <2>2, <2>3, <2>5, <2>6, <2>7 DEF CallInv
<1>4. CASE InferAnswers \/ InferTimesOut
  <2>1. PICK c : c = result.call
    OBVIOUS
  <2>2. pc = "locating" /\ pc' = "review" /\ (InferEnds(c) \/ DeadlineElapses(c))
    BY <1>4, <2>1 DEF InferAnswers, InferTimesOut, Answered, Moves
  <2>3. c \in Calls /\ \A d \in Calls : Waiting(d) => d = c
    BY <2>1, <2>2 DEF CallInv
  <2>4. /\ OperatorInv' /\ infer'[c] \in {"returned", "raised"}
        /\ \A d \in Calls \ {c} : infer'[d] = infer[d]
    <3>1. OperatorInv
      BY DEF CallInv
    <3>2. QED
      BY <2>2, <2>3, <3>1, InferOverKeeps
  <2>5. UNCHANGED <<closes, disturbed>>
    BY <2>2 DEF InferEnds, DeadlineElapses
  <2>6. \A d \in Calls : ~Waiting(d)'
    BY <2>3, <2>4 DEF Waiting
  <2>7. QED
    BY <2>2, <2>4, <2>5, <2>6 DEF CallInv
<1>5. CASE Thread
  <2>1. UNCHANGED <<pc, result>>
    BY <1>5, ThreadSteps DEF appVars
  <2>2. WorkerTakes \/ \E c \in Calls, end \in Ends : ExtractEnds(c, end)
    BY <1>5, ThreadSteps
  <2>3. OperatorInv'
    BY <2>2, WorkerTakesKeeps, ExtractEndsKeeps DEF CallInv
  <2>4. UNCHANGED <<infer, closes, disturbed>>
    BY <2>2 DEF WorkerTakes, ExtractEnds
  <2>5. QED
    BY <2>1, <2>3, <2>4 DEF CallInv, Waiting
<1>6. QED
  BY <1>1, <1>2, <1>3, <1>4, <1>5, LoopStepsAt

(* What infer makes of a response, and what it says of it.                 *)
LEMMA ConcludedHonestly ==
  ASSUME NEW r \in {None, NotText} \cup Said, NEW grounded, NEW inner,
         inner = Concluded(Extracted(r), grounded)
  PROVE  /\ inner.reason \in {"server_unreachable", "output_unparseable", None}
         /\ inner.reason = "server_unreachable" => r = None
         /\ inner.reason = "output_unparseable" =>
              r # None /\ (IsMessage(r) => ContentOf(r) \notin Outputs)
         /\ inner.reason = None =>
              /\ IsMessage(r) /\ ContentOf(r) \in Outputs
              /\ inner.output = grounded[ContentOf(r)]
<1>1. /\ None \notin {"server_unreachable", "output_unparseable"} /\ None # NotText
      /\ None \notin Outputs /\ NotText \notin Outputs
  BY ContractOperatorConstants, OperatorConstants
<1>2. CASE r = None
  <2>1. inner = Unavailable("server_unreachable")
    BY <1>2 DEF Extracted, Failed, Concluded
  <2>2. QED
    BY <1>1, <1>2, <2>1 DEF Unavailable
<1>3. CASE r # None /\ (~IsMessage(r) \/ ContentOf(r) \in {None, NotText})
  <2>1. inner = Unavailable("output_unparseable")
    BY <1>3 DEF Extracted, Failed, Concluded
  <2>2. QED
    BY <1>1, <1>3, <2>1 DEF Unavailable
<1>4. CASE IsMessage(r) /\ ContentOf(r) \notin {None, NotText}
  <2>1. r # None
    BY <1>4 DEF IsMessage
  <2>2. Extracted(r) = [how |-> "output", anchors |-> ContentOf(r)]
    BY <1>4, <2>1 DEF Extracted
  <2>3. inner = Result(grounded[ContentOf(r)])
    BY <2>2 DEF Concluded
  <2>4. inner.reason = None /\ inner.output = grounded[ContentOf(r)]
    BY <2>3 DEF Result
  <2>5. ContentOf(r) \in Outputs
    BY <1>4, ContractOperatorConstants DEF IsMessage, ContentOf, Said
  <2>6. QED
    BY <1>1, <1>4, <2>4, <2>5
<1>5. QED
  BY <1>2, <1>3, <1>4

LEMMA HonestStep ==
  ASSUME LoopInv, CallInv, HonestInv, EdgeNext PROVE HonestInv'
<1>1. CASE Elsewhere
  <2>1. /\ UNCHANGED <<future, raw, infer, heard, machine>>
        /\ \/ UNCHANGED <<pc, result, node>>
           \/ /\ pc # "locating" /\ pc' # "locating"
              /\ UNCHANGED <<result, node>> \/ result' = None \/ result'.inner = None
    BY <1>1 DEF Elsewhere, operatorVars
  <2>2. HonestReason'
    <3>1. CASE UNCHANGED <<result, node>> /\ (pc' # "locating" => pc # "locating")
      BY <2>1, <3>1 DEF HonestInv, HonestReason, Grounds
    <3>2. CASE result' = None \/ result'.inner = None
      BY <3>2 DEF HonestReason
    <3>3. QED
      BY <2>1, <3>1, <3>2
  <2>3. QED
    BY <2>1, <2>2 DEF HonestInv, Waiting
<1>2. CASE ProcessDies
  <2>1. /\ pc' = "off" /\ result' = None /\ heard' = [c \in Calls |-> None]
        /\ infer' = [c \in Calls |-> "new"]
    BY <1>2 DEF ProcessDies
  <2>2. QED
    BY <2>1 DEF HonestInv, HonestReason, Waiting
<1>3. CASE CallStarts
  <2>1. PICK c : /\ c = CHOOSE d \in Calls : ~Waiting(d) /\ future[d] \notin {"pending", "running"}
                 /\ pc = "locate" /\ InferStart(c) /\ pc' = "locating"
                 /\ heard' = [heard EXCEPT ![c] = None]
                 /\ result' = [call |-> c, inner |-> None, seen |-> None]
    BY <1>3 DEF CallStarts, Infer, Moves
  <2>2. c \in Calls /\ \A d \in Calls : ~Waiting(d)
    BY <2>1, FreeCall DEF CallInv
  <2>3. /\ infer' = [infer EXCEPT ![c] = "waiting"] /\ future' = [future EXCEPT ![c] = "pending"]
    BY <2>1 DEF InferStart
  <2>4. /\ infer \in [Calls -> {"new", "waiting", "returned", "raised"}]
        /\ future \in [Calls -> {"none", "pending", "running", "finished", "cancelled"}]
    BY DEF CallInv, OperatorInv
  <2>5. \A d \in Calls : Waiting(d)' /\ future'[d] = "finished" => FALSE
    BY <2>2, <2>3, <2>4 DEF Waiting
  <2>6. heard' \in [Calls -> {None, NotText} \cup Said]
    BY <2>1 DEF HonestInv
  <2>7. result'.call = c
    BY <2>1
  <2>8. QED
    BY <2>1, <2>5, <2>6, <2>7 DEF HonestInv, HonestReason
<1>4. CASE InferAnswers \/ InferTimesOut
  <2>1. PICK c : c = result.call
    OBVIOUS
  <2>2. /\ pc = "locating" /\ pc' = "review" /\ (InferEnds(c) \/ DeadlineElapses(c))
        /\ UNCHANGED <<heard, node, machine>>
    BY <1>4, <2>1 DEF InferAnswers, InferTimesOut, Answered, Moves, serverVars
  <2>3. c \in Calls /\ Waiting(c) /\ (\A d \in Calls : Waiting(d) => d = c) /\ OperatorInv
        /\ disturbed = {}
    BY <2>1, <2>2 DEF CallInv
  <2>4. \A d \in Calls : ~Waiting(d)'
    <3>1. infer'[c] \in {"returned", "raised"} /\ \A d \in Calls \ {c} : infer'[d] = infer[d]
      BY <2>2, <2>3, InferOverKeeps
    <3>2. QED
      BY <2>3, <3>1 DEF Waiting
  <2>5. result = [call |-> c, inner |-> None, seen |-> None]
    BY <2>1, <2>2 DEF HonestInv
  <2>6. HonestReason'
    <3>1. CASE InferTimesOut
      <4>1. /\ machine.deadline
            /\ result' = [result EXCEPT !.inner = Unavailable("deadline_exceeded"),
                                        !.seen = Located(Unavailable("deadline_exceeded"))]
        BY <3>1 DEF InferTimesOut, Answered
      <4>2. result'.inner.reason = "deadline_exceeded"
        BY <2>5, <4>1 DEF Unavailable
      <4>3. machine'.deadline
        BY <2>2, <4>1
      <4>4. None # "deadline_exceeded"
        BY ContractOperatorConstants
      <4>5. QED
        BY <4>2, <4>3, <4>4 DEF HonestReason
    <3>2. CASE InferAnswers
      <4>1. PICK inner, grounded :
              /\ grounded = Grounds(c) /\ inner = Concluded(raw[c], grounded)
              /\ result' = [result EXCEPT !.inner = inner, !.seen = Located(inner)]
              /\ InferEnds(c)
        BY <2>1, <3>2 DEF InferAnswers, Answered
      <4>2. future[c] = "finished"
        BY <2>3, <4>1 DEF InferEnds, OperatorInv
      <4>3. raw[c] = Extracted(heard[c]) /\ heard[c] \in {None, NotText} \cup Said
        BY <2>3, <4>2 DEF HonestInv
      <4>4. result'.inner = inner /\ result'.call = c
        BY <2>5, <4>1
      <4>5. heard'[result'.call] = heard[c] /\ Grounds(result.call)' = grounded
        BY <2>2, <4>1, <4>4 DEF Grounds
      <4>6. PICK r \in {None, NotText} \cup Said : r = heard[c]
        BY <4>3
      <4>7. inner = Concluded(Extracted(r), grounded)
        BY <4>1, <4>3, <4>6
      <4>8. /\ inner.reason \in {"server_unreachable", "output_unparseable", None}
            /\ inner.reason = "server_unreachable" => r = None
            /\ inner.reason = "output_unparseable" =>
                 r # None /\ (IsMessage(r) => ContentOf(r) \notin Outputs)
            /\ inner.reason = None =>
                 /\ IsMessage(r) /\ ContentOf(r) \in Outputs
                 /\ inner.output = grounded[ContentOf(r)]
        BY <4>7, ConcludedHonestly
      <4>9. None \notin {"server_unreachable", "output_unparseable", "deadline_exceeded"}
        BY ContractOperatorConstants
      <4>10. heard'[result'.call] = r
        BY <4>5, <4>6
      <4>11. CASE inner.reason = "server_unreachable"
        BY <4>4, <4>8, <4>9, <4>10, <4>11 DEF HonestReason
      <4>12. CASE inner.reason = "output_unparseable"
        BY <4>4, <4>8, <4>9, <4>10, <4>12 DEF HonestReason
      <4>13. CASE inner.reason = None
        <5>1. IsMessage(r) /\ ContentOf(r) \in Outputs /\ inner.output = grounded[ContentOf(r)]
          BY <4>8, <4>13
        <5>2. (inner.output = Grounds(result.call)[ContentOf(r)])'
          BY <4>4, <4>5, <5>1
        <5>3. QED
          BY <4>4, <4>9, <4>10, <4>13, <5>1, <5>2 DEF HonestReason
      <4>14. QED
        BY <4>8, <4>11, <4>12, <4>13
    <3>3. QED
      BY <1>4, <3>1, <3>2
  <2>7. QED
    BY <2>2, <2>4, <2>6 DEF HonestInv
<1>5. CASE Thread
  <2>1. UNCHANGED <<machine, pc, node, result>>
    BY <1>5, ThreadSteps DEF appVars
  <2>2. CASE WorkerTakes /\ UNCHANGED heard
    <3>1. /\ UNCHANGED <<raw, infer, heard>>
          /\ \/ future' = future
             \/ future' = [future EXCEPT ![Head(queue)] = "running"]
      BY <2>2 DEF WorkerTakes
    <3>2. future \in [Calls -> {"none", "pending", "running", "finished", "cancelled"}]
      BY DEF CallInv, OperatorInv
    <3>3. \A d \in Calls : future'[d] = "finished" => future[d] = "finished"
      BY <3>1, <3>2
    <3>4. HonestReason'
      BY <2>1, <3>1 DEF HonestInv, HonestReason, Grounds
    <3>5. QED
      BY <2>1, <3>1, <3>3, <3>4 DEF HonestInv, Waiting
  <2>3. ASSUME NEW c \in Calls, NEW r \in {None, NotText} \cup Said, ExtractEnds(c, Extracted(r)),
               heard' = [heard EXCEPT ![c] = IF Waiting(c) THEN r ELSE @]
        PROVE  HonestInv'
    <3>1. /\ future' = [future EXCEPT ![c] = "finished"] /\ UNCHANGED infer
          /\ raw' = [raw EXCEPT ![c] = IF Waiting(c) THEN Extracted(r) ELSE None]
      BY <2>3 DEF ExtractEnds
    <3>2. /\ future \in [Calls -> {"none", "pending", "running", "finished", "cancelled"}]
          /\ raw \in [Calls -> Ends \cup {None}]
          /\ heard \in [Calls -> {None, NotText} \cup Said]
      BY DEF CallInv, OperatorInv, HonestInv
    <3>3. heard' \in [Calls -> {None, NotText} \cup Said]
      BY <2>3, <3>2
    <3>4. ASSUME NEW d \in Calls, Waiting(d)', future'[d] = "finished"
          PROVE  raw'[d] = Extracted(heard'[d])
      <4>1. Waiting(d)
        BY <3>1, <3>4 DEF Waiting
      <4>2. CASE d = c
        BY <2>3, <3>1, <3>2, <4>1, <4>2
      <4>3. CASE d # c
        <5>1. future[d] = "finished" /\ raw'[d] = raw[d] /\ heard'[d] = heard[d]
          BY <2>3, <3>1, <3>2, <3>4, <4>3
        <5>2. QED
          BY <4>1, <5>1 DEF HonestInv
      <4>4. QED
        BY <4>2, <4>3
    <3>5. HonestReason'
      <4>1. CASE pc = "locating"
        BY <2>1, <4>1 DEF HonestReason
      <4>2. CASE pc # "locating"
        <5>1. ~Waiting(c)
          BY <4>2 DEF CallInv
        <5>2. heard' = heard
          BY <2>3, <3>2, <5>1
        <5>3. QED
          BY <2>1, <5>2 DEF HonestInv, HonestReason, Grounds
      <4>3. QED
        BY <4>1, <4>2
    <3>6. QED
      BY <2>1, <3>3, <3>4, <3>5 DEF HonestInv
  <2>4. QED
    BY <1>5, <2>2, <2>3, ThreadSteps
<1>6. QED
  BY <1>1, <1>2, <1>3, <1>4, <1>5, LoopStepsAt
-----------------------------------------------------------------------------
(* The notices of an event *)

(* All but the last failed transiently, and there is an attempt for each.  *)
ByRetry(ns) ==
  /\ Len(ns) <= MaxAttempts
  /\ \A k \in 1..(Len(ns) - 1) : ns[k].ended = "transient"

(* Each earlier attempt of the event at hand left one that failed, or none;*)
(* there is none yet of the events to come.                                *)
Unheard(ns) ==
  /\ Len(ns) < attempt
  /\ \A k \in 1..Len(ns) : ns[k].ended = "transient"

NoticesInv ==
  /\ \E T : notices \in [Keys -> Seq(T)]
  /\ \A i \in DOMAIN Events :
       /\ ByRetry(notices[Events[i]])
       /\ i > next \/ (i = next /\ pc \notin Working) => notices[Events[i]] = <<>>
       /\ i = next /\ pc \in Working => Unheard(notices[Events[i]])

Continues ==
  /\ UNCHANGED <<notices, next>> /\ attempt' \in {attempt, attempt + 1}
  /\ pc' \in Working <=> pc \in Working

Leaves ==
  /\ UNCHANGED notices /\ pc \in Working /\ pc' \notin Working
  /\ next' = next + 1

LEMMA RaisedOrOver ==
  ASSUME pc \in Working,
         EventOver \/ (\E transient : Raised(transient)) \/ (\E online, count : Routed(online, count))
  PROVE  \/ /\ UNCHANGED next /\ attempt' \in {attempt, attempt + 1}
            /\ pc' \in Working
         \/ pc' \notin Working /\ next' = next + 1
BY DEF EventOver, Raised, Routed, Moves, Working

LEMMA NoticesSteps ==
  ASSUME DeviceInv, EdgeNext
  PROVE  \/ Continues \/ Leaves \/ TakeEvent \/ ProcessDies
         \/ \E ended \in {"delivered", "transient", "failed"} : Notify(ended)
<1>1. CASE Boot \/ Opened \/ OpensForBusiness
  BY <1>1 DEF Boot, Opened, OpensForBusiness, Continues, Working
<1>2. CASE \/ WarmsUp \/ Thread \/ ServerChanges \/ (\E h \in Holders : OpensStore(h))
           \/ (\E e \in Keys : SecondEmitter(e))
  <2>1. UNCHANGED appVars
    BY <1>2 DEF WarmsUp, Thread, ServerChanges, OpensStore, SecondEmitter
  <2>2. QED
    BY <2>1 DEF appVars, Continues
<1>3. CASE StateRaises \/ (\E online \in BOOLEAN : Snapshot(online))
  <2>1. /\ pc \in Working /\ UNCHANGED notices
        /\ EventOver \/ (\E transient : Raised(transient)) \/ (\E online, count : Routed(online, count))
    BY <1>3 DEF StateRaises, Snapshot, Working
  <2>2. QED
    BY <2>1, RaisedOrOver DEF Continues, Leaves
<1>4. CASE ModelStep
  <2>1. /\ pc \in Working /\ UNCHANGED notices
        /\ \/ \E transient : Raised(transient)
           \/ Moves("locating") /\ UNCHANGED <<next, attempt>>
    BY <1>4 DEF ModelStep, Working
  <2>2. QED
    BY <2>1, RaisedOrOver DEF Continues, Leaves, Moves, Working
<1>5. CASE InferAnswers \/ InferTimesOut \/ AnswersAtOnce
  BY <1>5 DEF InferAnswers, InferTimesOut, AnswersAtOnce, Answered, Moves, Continues, Working
<1>6. CASE \E d \in Decisions : Reviewed(d)
  <2>1. /\ pc \in Working /\ UNCHANGED notices
        /\ \/ EventOver
           \/ (Moves("notify me") \/ Moves("notify sister")) /\ UNCHANGED <<next, attempt>>
    BY <1>6 DEF Reviewed, Decided, Working
  <2>2. QED
    BY <2>1, RaisedOrOver DEF Continues, Leaves, Moves, Working
<1>7. QED
  BY <1>1, <1>2, <1>3, <1>4, <1>5, <1>6 DEF EdgeNext, LoopStep

LEMMA NoticesStep ==
  ASSUME DeviceInv, LoopInv, NoticesInv, EdgeNext PROVE NoticesInv'
<1>0. /\ next \in Nat /\ attempt \in Nat /\ MaxAttempts \in Nat
      /\ attempt \in 0..MaxAttempts
      /\ DOMAIN Events \subseteq Nat
  <2>1. Events \in Seq(StoredRecords)
    BY DeviceConstants
  <2>2. DOMAIN Events \subseteq Nat
    BY <2>1
  <2>3. next \in Nat /\ attempt \in 0..MaxAttempts /\ MaxAttempts \in Nat
    BY Attempts DEF DeviceInv, LoopInv
  <2>4. attempt \in Nat
    BY <2>3
  <2>5. QED
    BY <2>2, <2>3, <2>4
<1>1. \A i \in DOMAIN Events : Events[i] \in Keys
  BY DEF Keys
<1>2. PICK T : notices \in [Keys -> Seq(T)]
  BY DEF NoticesInv
<1>3. \A i \in DOMAIN Events : Len(notices[Events[i]]) \in Nat
  BY <1>1, <1>2
<1>4. CASE Continues
  <2>1. UNCHANGED <<notices, next>> /\ attempt' \in {attempt, attempt + 1}
        /\ (pc' \in Working <=> pc \in Working)
    BY <1>4 DEF Continues
  <2>2. ASSUME NEW i \in DOMAIN Events, Unheard(notices[Events[i]])
        PROVE  Unheard(notices[Events[i]])'
    BY <1>0, <1>3, <2>1, <2>2 DEF Unheard
  <2>3. QED
    BY <2>1, <2>2 DEF NoticesInv, ByRetry
<1>5. CASE Leaves
  <2>1. UNCHANGED notices /\ pc \in Working /\ pc' \notin Working /\ next' = next + 1
    BY <1>5 DEF Leaves
  <2>2. \A i \in DOMAIN Events : i > next + 1 \/ i = next + 1 => i > next
    BY <1>0
  <2>3. QED
    BY <2>1, <2>2 DEF NoticesInv, ByRetry
<1>6. CASE TakeEvent
  <2>1. /\ UNCHANGED <<notices, next>> /\ pc \notin Working /\ attempt' = 1
    BY <1>6 DEF TakeEvent, Working
  <2>2. ASSUME NEW i \in DOMAIN Events, i = next
        PROVE  Unheard(notices[Events[i]])'
    <3>1. notices'[Events[i]] = <<>>
      BY <2>1, <2>2 DEF NoticesInv
    <3>2. QED
      BY <2>1, <3>1 DEF Unheard
  <2>3. QED
    BY <2>1, <2>2 DEF NoticesInv, ByRetry
<1>7. CASE ProcessDies
  <2>1. notices' = [e \in Keys |-> <<>>] /\ pc' \notin Working
    BY <1>7 DEF ProcessDies, Working
  <2>2. notices' \in [Keys -> Seq({})]
    BY <2>1
  <2>3. \A i \in DOMAIN Events : notices'[Events[i]] = <<>>
    BY <1>1, <2>1
  <2>4. QED
    BY <1>0, <2>1, <2>2, <2>3 DEF NoticesInv, ByRetry
<1>8. ASSUME NEW ended \in {"delivered", "transient", "failed"}, Notify(ended)
      PROVE  NoticesInv'
  <2> DEFINE was == notices[Event]
  <2>1. next \in DOMAIN Events /\ pc \in Working /\ Event = Events[next] /\ Event \in Keys
    BY <1>1, <1>8 DEF Notify, DeviceInv, Working, Event
  <2>2. Unheard(was) /\ was \in Seq(T) /\ Len(was) \in Nat
    BY <1>2, <2>1 DEF NoticesInv
  <2>3. Len(was) < attempt /\ ~(Len(was) > MaxAttempts)
        /\ \A k \in 1..Len(was) : was[k].ended = "transient"
    BY <1>0, <2>2 DEF Unheard
  <2>4. PICK new : new.ended = ended /\ notices' = [notices EXCEPT ![Event] = Append(was, new)]
    <3>1. notices' = [notices EXCEPT ![Event] =
                        Append(was, [to |-> pc, says |-> Says, ended |-> ended])]
      BY <1>8, <2>3 DEF Notify
    <3>2. QED
      BY <3>1
  <2> HIDE DEF was
  <2>5. PICK ns : /\ ns = Append(was, new) /\ ns \in Seq(T \cup {new}) /\ Len(ns) = Len(was) + 1
                  /\ \A k \in 1..Len(was) : ns[k] = was[k]
                  /\ ns[Len(was) + 1] = new
    <3>1. was \in Seq(T \cup {new}) /\ new \in T \cup {new}
      BY <2>2
    <3>2. QED
      BY <3>1, AppendProperties
  <2>6. \A k \in 1..(Len(ns) - 1) : ns[k].ended = "transient"
    BY <2>2, <2>3, <2>5
  <2>7. ByRetry(ns)'
    BY <1>0, <2>2, <2>3, <2>5, <2>6 DEF ByRetry
  <2>8. \A e \in Keys : notices'[e] = IF e = Event THEN ns ELSE notices[e]
    BY <1>2, <2>1, <2>4, <2>5
  <2>9. \A i \in DOMAIN Events : notices'[Events[i]] = IF i = next THEN ns ELSE notices[Events[i]]
    BY <1>1, <2>1, <2>8, DeviceConstants
  <2>10. notices' \in [Keys -> Seq(T \cup {new})]
    <3>1. Seq(T) \subseteq Seq(T \cup {new})
      OBVIOUS
    <3>2. DOMAIN notices' = Keys /\ notices' = [e \in Keys |-> notices'[e]]
      BY <1>2, <2>4
    <3>3. \A e \in Keys : notices'[e] \in Seq(T \cup {new})
      BY <1>2, <2>5, <2>8, <3>1
    <3>4. QED
      BY <3>2, <3>3
  <2>11. \A i \in DOMAIN Events : ByRetry(notices[Events[i]])'
    BY <2>7, <2>9 DEF NoticesInv, ByRetry
  <2>12. \/ UNCHANGED next /\ attempt' = attempt + 1 /\ pc' \in Working /\ ended = "transient"
         \/ pc' \notin Working /\ next' = next + 1
    BY <1>8 DEF Notify, Raised, EventOver, Moves, Working
  <2>13. CASE UNCHANGED next /\ attempt' = attempt + 1 /\ pc' \in Working /\ ended = "transient"
    <3>1. Len(ns) < attempt' /\ \A k \in 1..Len(ns) : ns[k].ended = "transient"
      BY <1>0, <2>2, <2>3, <2>4, <2>5, <2>13
    <3>2. Unheard(notices[Events[next]])'
      BY <2>1, <2>9, <2>13, <3>1 DEF Unheard
    <3>3. \A i \in DOMAIN Events : i > next => notices'[Events[i]] = <<>>
      BY <1>0, <2>9 DEF NoticesInv
    <3>4. QED
      BY <2>10, <2>11, <2>13, <3>2, <3>3 DEF NoticesInv
  <2>14. CASE pc' \notin Working /\ next' = next + 1
    <3>1. \A i \in DOMAIN Events : i > next + 1 \/ i = next + 1 => i > next /\ i # next
      BY <1>0
    <3>2. \A i \in DOMAIN Events : i > next + 1 \/ i = next + 1 => notices'[Events[i]] = <<>>
      BY <2>9, <3>1 DEF NoticesInv
    <3>3. QED
      BY <2>10, <2>11, <2>14, <3>2 DEF NoticesInv
  <2>15. QED
    BY <2>12, <2>13, <2>14
<1>9. QED
  BY <1>4, <1>5, <1>6, <1>7, <1>8, NoticesSteps

(* A boot opens a store again on the medium it was on, whatever was put in *)
(* or pulled out meanwhile; and the pipeline is where its call is.         *)
THEOREM StoresKept == EdgeSpec => []StoreKeepsItsRecords
<1> DEFINE Inv == DeviceInv /\ StoresInv /\ HomeInv /\ LoopInv /\ CallInv
<1>1. EdgeInit => Inv
  <2> SUFFICES ASSUME EdgeInit
               PROVE  Inv
    OBVIOUS
  <2>1. DeviceInv /\ StoresInv
    BY DeviceInvInit, StoresInvInit DEF EdgeInit
  <2>2. HomeInv
    BY DEF EdgeInit, StoresInit, HomeInv
  <2>3. LoopInv
    BY Attempts DEF EdgeInit, AppInit, LoopInv
  <2>4. CallInv
    BY OperatorStarts DEF EdgeInit, AppInit, OperatorInit, CallInv, Waiting
  <2>5. QED
    BY <2>1, <2>2, <2>3, <2>4
<1>2. Inv /\ [EdgeNext]_vars => Inv'
  <2> SUFFICES ASSUME Inv, [EdgeNext]_vars
               PROVE  Inv'
    OBVIOUS
  <2>1. CASE EdgeNext
    <3>1. [StoresNext]_storeVars /\ DeviceInv'
      BY <2>1, DeviceStep
    <3>2. StoresInv'
      BY <3>1, StoresInvInductive
    <3>3. HomeInv' /\ LoopInv' /\ CallInv'
      BY <2>1, HomeStep, LoopStepsAt, CallStep
    <3>4. QED
      BY <3>1, <3>2, <3>3
  <2>2. CASE UNCHANGED vars
    <3>1. UNCHANGED <<appVars, storeVars, operatorVars>>
      BY <2>2 DEF vars
    <3>2. StoresInv'
      BY <3>1, StoresInvInductive
    <3>3. OperatorInv'
      BY <3>1, OperatorKept DEF CallInv
    <3>4. DeviceInv' /\ HomeInv' /\ LoopInv'
      BY <3>1 DEF appVars, storeVars, DeviceInv, HomeInv, LoopInv
    <3>5. CallInv'
      BY <3>1, <3>3 DEF appVars, operatorVars, CallInv, Waiting
    <3>6. QED
      BY <3>2, <3>4, <3>5
  <2>3. QED
    BY <2>1, <2>2
<1>3. Inv => StoreKeepsItsRecords
  <2> SUFFICES ASSUME Inv
               PROVE  StoreKeepsItsRecords
    OBVIOUS
  <2>1. EdgeTypeOK
    BY DEF DeviceInv, LoopInv, CallInv, EdgeTypeOK, Working
  <2>2. QED
    BY <2>1, HomeKeepsRecords DEF StoreKeepsItsRecords
<1>4. QED
  BY <1>1, <1>2, <1>3, PTL DEF EdgeSpec

(* The reason of a result is that of the response to its own call, however *)
(* many calls were given up on and whatever their threads came back with.  *)
THEOREM ReasonsAreHonest == EdgeSpec => []HonestReason
<1> DEFINE Inv == LoopInv /\ CallInv /\ HonestInv
<1>1. EdgeInit => Inv
  <2> SUFFICES ASSUME EdgeInit
               PROVE  Inv
    OBVIOUS
  <2>1. LoopInv
    BY Attempts DEF EdgeInit, AppInit, LoopInv
  <2>2. CallInv
    BY OperatorStarts DEF EdgeInit, AppInit, OperatorInit, CallInv, Waiting
  <2>3. HonestInv
    BY DEF EdgeInit, AppInit, OperatorInit, ServerInit, HonestInv, HonestReason, Waiting
  <2>4. QED
    BY <2>1, <2>2, <2>3
<1>2. Inv /\ [EdgeNext]_vars => Inv'
  <2> SUFFICES ASSUME Inv, [EdgeNext]_vars
               PROVE  Inv'
    OBVIOUS
  <2>1. CASE EdgeNext
    BY <2>1, LoopStepsAt, CallStep, HonestStep
  <2>2. CASE UNCHANGED vars
    <3>1. UNCHANGED <<appVars, operatorVars, heard>>
      BY <2>2 DEF vars, serverVars
    <3>2. LoopInv'
      BY <3>1 DEF appVars, LoopInv
    <3>3. OperatorInv'
      BY <3>1, OperatorKept DEF CallInv
    <3>4. CallInv'
      BY <3>1, <3>3 DEF appVars, operatorVars, CallInv, Waiting
    <3>5. HonestReason'
      BY <3>1 DEF appVars, HonestInv, HonestReason, Grounds
    <3>6. HonestInv'
      BY <3>1, <3>5 DEF appVars, operatorVars, HonestInv, Waiting
    <3>7. QED
      BY <3>2, <3>4, <3>6
  <2>3. QED
    BY <2>1, <2>2
<1>3. Inv => HonestReason
  BY DEF HonestInv
<1>4. QED
  BY <1>1, <1>2, <1>3, PTL DEF EdgeSpec

(* Whoever is notified twice of an event was not told the first time, as   *)
(* far as the device knows: only a transient failure runs the pipeline     *)
(* again, and never more often than max_attempts.                          *)
THEOREM NotifiedByRetry == EdgeSpec => []NotifiedAgainOnlyByRetry
<1> DEFINE Inv == DeviceInv /\ StoresInv /\ LoopInv /\ NoticesInv
<1>1. EdgeInit => Inv
  <2> SUFFICES ASSUME EdgeInit
               PROVE  Inv
    OBVIOUS
  <2>1. DeviceInv /\ StoresInv
    BY DeviceInvInit, StoresInvInit DEF EdgeInit
  <2>2. LoopInv
    BY Attempts DEF EdgeInit, AppInit, LoopInv
  <2>3. notices = [e \in Keys |-> <<>>] /\ pc \notin Working
    BY DEF EdgeInit, AppInit, Working
  <2>4. notices \in [Keys -> Seq({})] /\ \A i \in DOMAIN Events : notices[Events[i]] = <<>>
    BY <2>3 DEF Keys
  <2>5. NoticesInv
    BY <2>3, <2>4, Attempts DEF NoticesInv, ByRetry
  <2>6. QED
    BY <2>1, <2>2, <2>5
<1>2. Inv /\ [EdgeNext]_vars => Inv'
  <2> SUFFICES ASSUME Inv, [EdgeNext]_vars
               PROVE  Inv'
    OBVIOUS
  <2>1. CASE EdgeNext
    BY <2>1, DeviceStep, StoresInvInductive, LoopStepsAt, NoticesStep
  <2>2. CASE UNCHANGED vars
    <3>1. UNCHANGED <<appVars, storeVars>>
      BY <2>2 DEF vars
    <3>2. StoresInv'
      BY <3>1, StoresInvInductive
    <3>3. DeviceInv' /\ LoopInv'
      BY <3>1 DEF appVars, storeVars, DeviceInv, LoopInv
    <3>4. NoticesInv'
      BY <3>1 DEF appVars, NoticesInv, ByRetry, Unheard
    <3>5. QED
      BY <3>2, <3>3, <3>4
  <2>3. QED
    BY <2>1, <2>2
<1>3. Inv => NotifiedAgainOnlyByRetry
  BY DEF NoticesInv, ByRetry, NotifiedAgainOnlyByRetry, Keys
<1>4. QED
  BY <1>1, <1>2, <1>3, PTL DEF EdgeSpec
-----------------------------------------------------------------------------
(* What a contract grounds *)

(* The ranks of some of the fields are the numbers up to how many they are.*)
LEMMA Ranks ==
  ASSUME NEW n \in Nat, NEW V \in SUBSET (1..n)
  PROVE  /\ Cardinality(V) \in Nat
         /\ \A k \in 1..Cardinality(V) : \E i \in V : Cardinality({j \in V : j <= i}) = k
         /\ \A i \in V : Cardinality({j \in V : j <= i}) \in 1..Cardinality(V)
<1> DEFINE W(m) == {j \in V : j <= m}
<1>0. \A j \in V : j \in Nat /\ 1 <= j /\ j <= n
  OBVIOUS
<1>1. IsFiniteSet(V)
  <2>1. IsFiniteSet(1..n)
    BY FS_Interval
  <2>2. QED
    BY <2>1, FS_Subset
<1>2. \A m : IsFiniteSet(W(m)) /\ Cardinality(W(m)) \in Nat /\ Cardinality(W(m)) <= Cardinality(V)
  <2>1. \A m : W(m) \subseteq V
    OBVIOUS
  <2> HIDE DEF W
  <2>2. QED
    BY <1>1, <2>1, FS_Subset, FS_CardinalityType
<1>3. Cardinality(V) \in Nat
  BY <1>1, FS_CardinalityType
<1>4. ASSUME NEW m \in 1..n
      PROVE  /\ m \in V => Cardinality(W(m)) = Cardinality(W(m - 1)) + 1
             /\ m \notin V => Cardinality(W(m)) = Cardinality(W(m - 1))
  <2>0. \A j \in V : j <= m <=> j <= m - 1 \/ j = m
    BY <1>0
  <2>1. m \notin W(m - 1)
    OBVIOUS
  <2>2. m \in V => W(m) = W(m - 1) \cup {m}
    BY <2>0
  <2>3. m \notin V => W(m) = W(m - 1)
    BY <2>0
  <2> HIDE DEF W
  <2>4. QED
    BY <1>2, <2>1, <2>2, <2>3, FS_AddElement
<1>5. ASSUME NEW k \in 1..Cardinality(V)
      PROVE  \E i \in V : Cardinality(W(i)) = k
  <2> DEFINE T == {m \in 0..n : Cardinality(W(m)) >= k}
  <2>1. W(0) = {} /\ W(n) = V
    <3>1. \A j \in V : ~(j <= 0) /\ j <= n
      BY <1>0
    <3>2. QED
      BY <3>1
  <2>2. 0 \notin T /\ n \in T
    <3> HIDE DEF W
    <3>1. Cardinality(W(0)) = 0 /\ Cardinality(W(n)) = Cardinality(V)
      BY <2>1, FS_EmptySet
    <3>2. QED
      BY <1>3, <3>1
  <2>3. PICK x \in T : \A y \in T : x <= y
    <3>1. T \in SUBSET Nat
      OBVIOUS
    <3> HIDE DEF T
    <3>2. QED
      BY <2>2, <3>1, Least
  <2> HIDE DEF W
  <2>4. x \in 1..n /\ Cardinality(W(x)) >= k /\ x - 1 \in 0..n
    BY <2>2
  <2>5. ~(Cardinality(W(x - 1)) >= k)
    BY <2>3, <2>4
  <2>6. Cardinality(W(x)) \in Nat /\ Cardinality(W(x - 1)) \in Nat
    BY <1>2
  <2>7. x \in V /\ Cardinality(W(x)) = k
    BY <1>4, <2>4, <2>5, <2>6
  <2>8. QED
    BY <2>7
<1>6. ASSUME NEW i \in V
      PROVE  Cardinality(W(i)) \in 1..Cardinality(V)
  <2>1. i \in W(i)
    OBVIOUS
  <2> HIDE DEF W
  <2>2. Cardinality(W(i)) # 0
    BY <1>2, <2>1, FS_EmptySet
  <2>3. QED
    BY <1>2, <1>3, <2>2
<1>7. QED
  BY <1>3, <1>5, <1>6

(* What a contract that parses promises of the labels of a closed set.     *)
Labelled(f) ==
  /\ Len(f.allowed) \in Nat /\ DOMAIN f.allowed = 1..Len(f.allowed)
  /\ None \notin Labels(f)
  /\ \A i, j \in DOMAIN f.allowed : i # j => Norm(f.allowed[i]) # Norm(f.allowed[j])
  /\ Norm(Sentinel) \notin {Norm(v) : v \in Labels(f)}

(* A closed-set field holds one of them, or the sentinel, and holds it     *)
(* still when it is taken for what a model said.                           *)
LEMMA ClosedStands ==
  ASSUME NEW f, Labelled(f), NEW value, NEW kept, kept = GroundClosed(f, value)
  PROVE  /\ kept \in Labels(f) \cup {Sentinel}
         /\ GroundClosed(f, [type |-> "str", text |-> kept]) = kept
         /\ Norm(kept) = Norm(Sentinel) => kept = Sentinel
<1>1. kept = Sentinel \/ \E i \in DOMAIN f.allowed : kept = f.allowed[i]
  <2> DEFINE said    == Coerce(value)
             matches == {i \in DOMAIN f.allowed : Norm(f.allowed[i]) = Norm(said)}
             first   == CHOOSE i \in matches : \A j \in matches : i <= j
  <2>1. kept = IF said \in {None, Sentinel} \/ matches = {} THEN Sentinel ELSE f.allowed[first]
    BY DEF GroundClosed
  <2>2. matches \in SUBSET Nat /\ matches \subseteq DOMAIN f.allowed
    BY DEF Labelled
  <2> HIDE DEF matches
  <2>3. matches # {} => first \in matches
    BY <2>2, Least
  <2> HIDE DEF first
  <2>4. QED
    BY <2>1, <2>2, <2>3
<1>2. kept \in Labels(f) \cup {Sentinel}
  BY <1>1 DEF Labels
<1>3. \A i \in DOMAIN f.allowed : Norm(f.allowed[i]) # Norm(Sentinel) /\ f.allowed[i] # None
  BY DEF Labelled, Labels
<1>4. Norm(kept) = Norm(Sentinel) => kept = Sentinel
  BY <1>1, <1>3
<1> DEFINE again == [type |-> "str", text |-> kept]
<1>5. Coerce(again) = kept
  BY DEF Coerce
<1> HIDE DEF again
<1>6. GroundClosed(f, again) = kept
  <2>1. CASE kept = Sentinel
    BY <1>5, <2>1 DEF GroundClosed
  <2>2. CASE kept # Sentinel
    <3>1. PICK i \in DOMAIN f.allowed : kept = f.allowed[i]
      BY <1>1, <2>2
    <3> DEFINE matches == {j \in DOMAIN f.allowed : Norm(f.allowed[j]) = Norm(kept)}
    <3>2. matches = {i}
      BY <3>1 DEF Labelled
    <3>3. i \in Nat
      BY DEF Labelled
    <3>4. GroundClosed(f, again) =
            IF kept \in {None, Sentinel} \/ matches = {} THEN Sentinel
            ELSE f.allowed[CHOOSE j \in matches : \A l \in matches : j <= l]
      BY <1>5 DEF GroundClosed
    <3> HIDE DEF matches
    <3>5. (CHOOSE j \in matches : \A l \in matches : j <= l) = i
      BY <3>2, <3>3
    <3>6. kept # None
      BY <1>3, <3>1
    <3>7. QED
      BY <2>2, <3>1, <3>2, <3>4, <3>5, <3>6
  <2>3. QED
    BY <2>1, <2>2
<1>7. QED
  BY <1>2, <1>4, <1>6 DEF again

(* What the device grounded by a contract it loaded stays grounded.        *)
Sound(c) ==
  /\ Authored(c)
  /\ \A i \in DOMAIN c.fields : Closed(c.fields[i]) => Labelled(c.fields[i])

LEMMA LoadedIsSound ==
  ASSUME NEW file, Loads(file), Authored(Load(file)) PROVE Sound(Load(file))
<1> DEFINE w == Unwrap(file)
           c == Load(file)
<1>1. /\ \A i \in DOMAIN w.fields : FieldOK(FieldFromWire(w.fields[i])) /\ ContractOK(c)
      /\ c.fields = [i \in DOMAIN w.fields |-> FieldFromWire(w.fields[i])]
  BY DEF Loads, WireContractOK, WireFieldOK, Load, ContractFromWire
<1>2. \A i \in DOMAIN c.fields : FieldOK(c.fields[i])
  BY <1>1
<1>3. ASSUME NEW i \in DOMAIN c.fields, Closed(c.fields[i])
      PROVE  Labelled(c.fields[i])
  <2>1. ContractOK(c)
    BY <1>1
  <2>2. Norm(Sentinel) \notin {Norm(v) : v \in Labels(c.fields[i])}
    BY <1>3, <2>1 DEF ContractOK
  <2>3. /\ Len(c.fields[i].allowed) \in Nat
        /\ DOMAIN c.fields[i].allowed = 1..Len(c.fields[i].allowed)
        /\ None \notin Labels(c.fields[i])
    BY DEF Authored
  <2>4. \A j, k \in DOMAIN c.fields[i].allowed :
          j # k => Norm(c.fields[i].allowed[j]) # Norm(c.fields[i].allowed[k])
    BY <1>2, <1>3 DEF FieldOK, Closed
  <2> HIDE DEF c
  <2>5. QED
    BY <2>2, <2>3, <2>4 DEF Labelled
<1>4. QED
  BY <1>3 DEF Sound

LEMMA FieldsStand ==
  ASSUME NEW c, Sound(c), NEW o \in Outputs, NEW output, output = GroundFields(o, c)
  PROVE  DOMAIN output = DOMAIN c.fields /\ StaysGrounded(output, c)
<1> DEFINE V == VerbatimRanks(c)
           rank(i) == Cardinality({j \in V : j <= i})
           at(k) == CHOOSE i \in V : rank(i) = k
           said == [k \in 1..Cardinality(V) |-> o[at(k)]]
           kept == GroundAnchors(said, c.limits)
<1>1. Len(c.fields) \in Nat /\ DOMAIN c.fields = 1..Len(c.fields) /\ c.limits.total \in Nat
  BY DEF Sound, Authored
<1>2. V \in SUBSET (1..Len(c.fields))
  BY <1>1 DEF VerbatimRanks
<1>3. output = [i \in DOMAIN c.fields |->
                  IF Closed(c.fields[i]) THEN GroundClosed(c.fields[i], o[i]) ELSE kept[rank(i)]]
  BY DEF GroundFields
<1>4. \A i \in DOMAIN c.fields : i \in V <=> ~Closed(c.fields[i])
  BY DEF VerbatimRanks
<1>5. \A i \in V : IsValue(o[i])
  BY <1>4 DEF Sound, Authored, IsValue, VerbatimRanks
<1> HIDE DEF V
<1>6. /\ Cardinality(V) \in Nat
      /\ \A k \in 1..Cardinality(V) : \E i \in V : rank(i) = k
      /\ \A i \in V : rank(i) \in 1..Cardinality(V)
  BY <1>1, <1>2, Ranks
<1> HIDE DEF rank
<1>7. \A k \in 1..Cardinality(V) : at(k) \in V /\ rank(at(k)) = k
  BY <1>6
<1> HIDE DEF at
<1>8. DOMAIN said = 1..Cardinality(V) /\ \A k \in 1..Cardinality(V) : IsValue(said[k])
  BY <1>5, <1>7
<1> HIDE DEF said
<1>9. GroundAnchors(kept, c.limits) = kept /\ kept = [k \in 1..Cardinality(V) |-> kept[k]]
  BY <1>1, <1>6, <1>8, GroundedStands
<1> HIDE DEF kept
<1>10. DOMAIN output = DOMAIN c.fields
  BY <1>3
<1> DEFINE again == Again(c, output)
           saidAgain == [k \in 1..Cardinality(V) |-> again[at(k)]]
<1>11. saidAgain = kept
  <2>1. ASSUME NEW k \in 1..Cardinality(V)
        PROVE  again[at(k)] = kept[k]
    <3>1. at(k) \in DOMAIN c.fields /\ ~Closed(c.fields[at(k)]) /\ rank(at(k)) = k
      BY <1>1, <1>2, <1>4, <1>7
    <3>2. output[at(k)] = kept[k]
      BY <1>3, <3>1
    <3>3. QED
      BY <3>1, <3>2 DEF Again
  <2> HIDE DEF again
  <2>2. saidAgain = [k \in 1..Cardinality(V) |-> kept[k]]
    BY <2>1
  <2>3. QED
    BY <1>9, <2>2
<1>12. \A i \in DOMAIN c.fields : Closed(c.fields[i]) =>
         /\ output[i] \in Labels(c.fields[i]) \cup {Sentinel}
         /\ GroundClosed(c.fields[i], again[i]) = output[i]
         /\ Norm(output[i]) = Norm(Sentinel) => output[i] = Sentinel
  <2>1. ASSUME NEW i \in DOMAIN c.fields, Closed(c.fields[i])
        PROVE  /\ output[i] \in Labels(c.fields[i]) \cup {Sentinel}
               /\ GroundClosed(c.fields[i], again[i]) = output[i]
               /\ Norm(output[i]) = Norm(Sentinel) => output[i] = Sentinel
    <3>1. output[i] = GroundClosed(c.fields[i], o[i]) /\ Labelled(c.fields[i])
      BY <1>3, <2>1 DEF Sound
    <3>2. again[i] = [type |-> "str", text |-> output[i]]
      BY <2>1 DEF Again
    <3>3. QED
      BY <3>1, <3>2, ClosedStands
  <2>2. QED
    BY <2>1
<1>13. GroundFields(again, c) = output
  <2>1. GroundFields(again, c) =
          [i \in DOMAIN c.fields |->
             IF Closed(c.fields[i]) THEN GroundClosed(c.fields[i], again[i])
             ELSE GroundAnchors(saidAgain, c.limits)[rank(i)]]
    BY DEF GroundFields, V, rank, at
  <2> HIDE DEF again, saidAgain
  <2>2. QED
    BY <1>3, <1>9, <1>11, <1>12, <2>1
<1>14. QED
  BY <1>10, <1>12, <1>13 DEF StaysGrounded

-----------------------------------------------------------------------------
(* What is told *)

(* A contract's node was built of a file that loads; a device that is up   *)
(* has a node.                                                             *)
NodeInv ==
  /\ pc # "off" => node # None
  /\ node # None /\ node.kind = "contract" => Sound(node.contract)

(* What the pipeline sees of a result is what the node makes of it, and its*)
(* output is grounded.                                                     *)
ToldInv ==
  result # None /\ pc # "locating" /\ result.inner # None =>
    /\ result.seen = Located(result.inner)
    /\ \/ \E reason : result.inner = Unavailable(reason)
       \/ \E o \in Outputs : result.inner = Result(Grounds(result.call)[o])

LEMMA NodeIsSound ==
  ASSUME NEW m \in Machines, NEW up, NEW n, n = NodeOf(m, up), n # None, n.kind = "contract"
  PROVE  Sound(n.contract)
<1>1. m.app \in {"pack", "for_contract", "runner"}
  BY DeviceConstants
<1>2. m.file # None /\ Loads(m.file) => Sound(Load(m.file))
  BY LoadedIsSound, DeviceConstants
<1>3. CASE m.app = "pack"
  <2>1. n = Locator(m.file, m.env, up, Placement(ManifestOf(m)))
    BY <1>3 DEF NodeOf
  <2>2. n.kind = "contract" => m.file # None
    BY <2>1 DEF Locator
  <2>3. m.file # None /\ Loads(m.file) /\ n.contract = Load(m.file)
    BY <2>1, <2>2 DEF Locator
  <2>4. QED
    BY <1>2, <2>3
<1>4. CASE m.app = "for_contract"
  <2>1. n = ForContractNode(m) /\ m.file # None
    BY <1>4, DeviceConstants DEF NodeOf
  <2>2. Loads(m.file) /\ n.contract = Load(m.file)
    BY <2>1 DEF ForContractNode
  <2>3. QED
    BY <1>2, <2>1, <2>2
<1>5. CASE m.app = "runner"
  <2>1. n = RunnerNode(m)
    BY <1>5 DEF NodeOf
  <2>2. n.kind # "contract"
    BY <2>1 DEF RunnerNode
  <2>3. QED
    BY <2>2
<1>6. QED
  BY <1>1, <1>3, <1>4, <1>5

(* Only a boot and the end of the process change the node.                 *)
LEMMA NodeSteps ==
  ASSUME EdgeNext
  PROVE  Boot \/ ProcessDies \/ (UNCHANGED node /\ (pc' # "off" => pc # "off"))
<1>1. CASE Opened \/ OpensForBusiness
  BY <1>1 DEF Opened, OpensForBusiness
<1>2. CASE \/ WarmsUp \/ Thread \/ ServerChanges \/ (\E h \in Holders : OpensStore(h))
           \/ (\E e \in Keys : SecondEmitter(e))
  BY <1>2 DEF WarmsUp, Thread, ServerChanges, OpensStore, SecondEmitter, appVars
<1>3. ASSUME EventOver \/ (\E transient : Raised(transient)) \/ (\E online, count : Routed(online, count))
      PROVE  UNCHANGED node
  BY <1>3 DEF EventOver, Raised, Routed, Moves
<1>4. CASE TakeEvent \/ StateRaises \/ (\E online \in BOOLEAN : Snapshot(online))
  <2>1. /\ pc # "off"
        /\ \/ Moves("state") \/ EventOver \/ (\E transient : Raised(transient))
           \/ (\E online, count : Routed(online, count))
    BY <1>4 DEF TakeEvent, StateRaises, Snapshot
  <2>2. QED
    BY <1>3, <2>1 DEF Moves
<1>5. CASE ModelStep \/ InferAnswers \/ InferTimesOut \/ AnswersAtOnce
  <2>1. /\ pc # "off"
        /\ Moves("locating") \/ Moves("review") \/ (\E transient : Raised(transient))
    BY <1>5 DEF ModelStep, InferAnswers, InferTimesOut, AnswersAtOnce, Answered
  <2>2. QED
    BY <1>3, <2>1 DEF Moves
<1>6. CASE \/ (\E ended \in {"delivered", "transient", "failed"} : Notify(ended))
           \/ (\E d \in Decisions : Reviewed(d))
  <2>1. /\ pc # "off"
        /\ \/ Moves("notify me") \/ Moves("notify sister") \/ EventOver
           \/ (\E transient : Raised(transient))
    BY <1>6 DEF Notify, Reviewed, Decided
  <2>2. QED
    BY <1>3, <2>1 DEF Moves
<1>7. QED
  BY <1>1, <1>2, <1>4, <1>5, <1>6 DEF EdgeNext, LoopStep

LEMMA NodeStep ==
  ASSUME DeviceInv, NodeInv, EdgeNext PROVE NodeInv'
<1>1. CASE Boot
  <2>1. /\ node' = NodeOf(machine, server # "down") /\ machine \in Machines
        /\ pc' = IF node' = None THEN "off" ELSE "open"
    BY <1>1 DEF Boot, DeviceInv
  <2>2. PICK n : n = NodeOf(machine, server # "down")
    OBVIOUS
  <2>3. node' = n /\ (n # None /\ n.kind = "contract" => Sound(n.contract))
    BY <2>1, <2>2, NodeIsSound
  <2>4. QED
    BY <2>1, <2>3 DEF NodeInv
<1>2. CASE ProcessDies
  BY <1>2 DEF ProcessDies, NodeInv
<1>3. CASE UNCHANGED node /\ (pc' # "off" => pc # "off")
  BY <1>3 DEF NodeInv
<1>4. QED
  BY <1>1, <1>2, <1>3, NodeSteps

LEMMA ToldStep ==
  ASSUME LoopInv, CallInv, HonestInv, ToldInv, EdgeNext PROVE ToldInv'
<1>1. CASE Elsewhere
  <2>1. /\ UNCHANGED <<heard, machine>>
        /\ \/ UNCHANGED <<pc, result, node>>
           \/ /\ pc # "locating" /\ pc' # "locating"
              /\ UNCHANGED <<result, node>> \/ result' = None \/ result'.inner = None
    BY <1>1 DEF Elsewhere
  <2>2. CASE UNCHANGED <<result, node>> /\ (pc' # "locating" => pc # "locating")
    BY <2>1, <2>2 DEF ToldInv, Grounds, Located
  <2>3. CASE result' = None \/ result'.inner = None
    BY <2>3 DEF ToldInv
  <2>4. QED
    BY <2>1, <2>2, <2>3
<1>2. CASE ProcessDies
  BY <1>2 DEF ProcessDies, ToldInv
<1>3. CASE CallStarts
  <2>1. pc' = "locating"
    BY <1>3 DEF CallStarts, Moves
  <2>2. QED
    BY <2>1 DEF ToldInv
<1>4. CASE InferTimesOut
  <2>1. PICK inner : /\ inner = Unavailable("deadline_exceeded") /\ pc = "locating"
                     /\ result' = [result EXCEPT !.inner = inner, !.seen = Located(inner)]
                     /\ UNCHANGED <<node, machine>>
    BY <1>4 DEF InferTimesOut, Answered, Moves
  <2>2. result = [call |-> result.call, inner |-> None, seen |-> None]
    BY <2>1 DEF HonestInv
  <2>3. result'.inner = inner /\ result'.seen = Located(inner)
    BY <2>1, <2>2
  <2>4. Located(result.inner)' = Located(inner)
    BY <2>1, <2>3 DEF Located
  <2>5. QED
    BY <2>1, <2>3, <2>4 DEF ToldInv
<1>5. CASE InferAnswers
  <2>1. PICK c, end, grounded, inner :
          /\ c = result.call /\ end = raw[c] /\ grounded = Grounds(c)
          /\ inner = Concluded(end, grounded) /\ pc = "locating" /\ InferEnds(c)
          /\ result' = [result EXCEPT !.inner = inner, !.seen = Located(inner)]
          /\ UNCHANGED <<node, machine>>
    BY <1>5 DEF InferAnswers, Answered, Moves
  <2>2. result = [call |-> result.call, inner |-> None, seen |-> None]
    BY <2>1 DEF HonestInv
  <2>3. result'.inner = inner /\ result'.seen = Located(inner) /\ result'.call = c
    BY <2>1, <2>2
  <2>4. Located(result.inner)' = Located(inner) /\ Grounds(result.call)' = grounded
    BY <2>1, <2>3 DEF Located, Grounds
  <2>5. end \in Ends
    <3>1. c \in Calls /\ Waiting(c) /\ OperatorInv /\ disturbed = {}
      BY <2>1 DEF CallInv
    <3>2. future[c] = "finished"
      BY <2>1, <3>1 DEF InferEnds, OperatorInv
    <3>3. QED
      BY <2>1, <3>1, <3>2 DEF OperatorInv
  <2>6. \/ \E reason : inner = Unavailable(reason)
        \/ \E o \in Outputs : inner = Result(grounded[o])
    <3>1. CASE end.how = "output"
      <4>1. end.anchors \in Outputs
        BY <2>5, <3>1, OperatorConstants DEF Ends
      <4>2. inner = Result(grounded[end.anchors])
        BY <2>1, <3>1 DEF Concluded
      <4>3. QED
        BY <4>1, <4>2
    <3>2. CASE end.how # "output"
      <4>1. inner \in {Unavailable("server_unreachable"), Unavailable("output_unparseable"),
                       Unavailable("error")}
        BY <2>1, <3>2 DEF Concluded
      <4>2. QED
        BY <4>1
    <3>3. QED
      BY <3>1, <3>2
  <2>7. QED
    BY <2>3, <2>4, <2>6 DEF ToldInv
<1>6. CASE Thread
  <2>1. UNCHANGED <<machine, pc, node, result>>
    BY <1>6, ThreadSteps DEF appVars
  <2>2. QED
    BY <2>1 DEF ToldInv, Grounds, Located
<1>7. QED
  BY <1>1, <1>2, <1>3, <1>4, <1>5, <1>6, LoopStepsAt

LEMMA ToldIs ==
  ASSUME NEW notice, NEW what, NEW zone, notice = Told(what, zone)
  PROVE  notice.told = what /\ notice.zone = zone
BY DEF Told

(* A notice says where the cat is only of a result that is accepted.       *)
LEMMA SummarySays ==
  ASSUME NEW r
  PROVE  /\ Summary(r).told \in {"located", "not located"} => r.status = "success"
         /\ Summary(r).told = "located" =>
              Summary(r).zone = IF r.output.zone = None THEN "unknown zone" ELSE r.output.zone
<1>1. CASE r.status # "success"
  <2>1. Summary(r) = Told("not confidently located", None)
    BY <1>1 DEF Summary, ModelDisposition
  <2>2. Summary(r).told = "not confidently located"
    BY <2>1, ToldIs
  <2>3. QED
    BY <2>2
<1>2. CASE r.status = "success"
  <2> DEFINE zone == IF r.output.zone = None THEN "unknown zone" ELSE r.output.zone
  <2>1. Summary(r) \in {Told("camera unavailable", None), Told("not located", None),
                        Told("located", zone)}
    BY <1>2 DEF Summary, ModelDisposition, Described
  <2> HIDE DEF zone
  <2>2. \/ Summary(r).told \in {"camera unavailable", "not located"}
        \/ Summary(r).zone = zone
    BY <2>1, ToldIs
  <2>3. QED
    BY <1>2, <2>2 DEF zone
<1>3. QED
  BY <1>1, <1>2

ZonesClosed(c) == \A i \in DOMAIN c.fields : c.fields[i].name = "zone" => Closed(c.fields[i])

(* What is seen of an answer that is grounded by a contract.               *)
LEMMA SeenOfGrounded ==
  ASSUME NEW c, Sound(c), NEW o \in Outputs, NEW output, output = GroundFields(o, c),
         NEW r, r = LocatedByContract(Result(output), c), r.status = "success"
  PROVE  /\ FailingFields(Result(output), c) # DOMAIN c.fields
         /\ ZonesClosed(c) => \/ r.output.zone = None
                              \/ \E i \in DOMAIN c.fields : r.output.zone \in Labels(c.fields[i])
<1>1. DOMAIN output = DOMAIN c.fields /\ StaysGrounded(output, c)
  BY FieldsStand
<1>2. \A i \in DOMAIN c.fields : Closed(c.fields[i]) =>
         output[i] \in Labels(c.fields[i]) \cup {Sentinel}
  BY <1>1 DEF StaysGrounded
<1>3. Result(output).output = output
      /\ Result(output).status = IF GroundedKeys(output) # {} THEN "success" ELSE "uncertain"
  BY DEF Result
<1>4. output # None
  BY <1>3 DEF LocatedByContract, Unavailable
<1> DEFINE zone == FieldOf(output, c, "zone")
           location == CatLocation(FieldOf(output, c, "present") = "true",
                                   IF zone = Sentinel THEN None ELSE zone)
<1>5. r = [status |-> Result(output).status, reason |-> None, output |-> location]
  BY <1>3, <1>4 DEF LocatedByContract
<1>6. GroundedKeys(output) # {}
  <2>1. r.status = Result(output).status
    BY <1>5
  <2>2. QED
    BY <1>3, <2>1
<1>7. FailingFields(Result(output), c) # DOMAIN c.fields
  <2>1. FailingFields(Result(output), c) = DOMAIN c.fields \ GroundedKeys(output)
    BY <1>3, <1>4 DEF FailingFields
  <2>2. GroundedKeys(output) \subseteq DOMAIN c.fields
    BY <1>1 DEF GroundedKeys
  <2>3. QED
    BY <1>6, <2>1, <2>2
<1>8. r.output.zone = IF zone = Sentinel THEN None ELSE zone
  <2>1. r.output = location
    BY <1>5
  <2>2. QED
    BY <2>1 DEF CatLocation
<1>9. ASSUME ZonesClosed(c)
      PROVE  zone = Sentinel \/ \E i \in DOMAIN c.fields : zone \in Labels(c.fields[i])
  <2>1. CASE "zone" \notin FieldNames(c)
    BY <2>1 DEF FieldOf
  <2>2. CASE "zone" \in FieldNames(c)
    <3>1. \E i \in DOMAIN c.fields : c.fields[i].name = "zone"
      BY <2>2 DEF FieldNames
    <3>2. PICK i \in DOMAIN c.fields :
            i = (CHOOSE j \in DOMAIN c.fields : c.fields[j].name = "zone")
            /\ c.fields[i].name = "zone"
      BY <3>1
    <3>3. zone = output[i]
      BY <2>2, <3>2 DEF FieldOf
    <3>4. output[i] \in Labels(c.fields[i]) \cup {Sentinel}
      BY <1>2, <1>9, <3>2 DEF ZonesClosed
    <3>5. QED
      BY <3>3, <3>4
  <2>3. QED
    BY <2>1, <2>2
<1>10. QED
  BY <1>7, <1>8, <1>9

LEMMA ToldIsGrounded ==
  ASSUME LoopInv, NodeInv, ToldInv PROVE OnlyGroundedIsTold
<1> SUFFICES ASSUME result # None, pc # "locating", result.inner # None, node.kind = "contract"
             PROVE  OnlyGroundedIsTold
  BY DEF OnlyGroundedIsTold
<1> DEFINE c == node.contract
           inner == result.inner
<1>1. pc # "off"
  BY DEF LoopInv
<1>2. Sound(c)
  BY <1>1 DEF NodeInv
<1>3. result.seen = LocatedByContract(inner, c)
  BY DEF ToldInv, Located
<1>4. Says = Summary(result.seen)
  BY DEF Says
<1>5. CASE \E reason : inner = Unavailable(reason)
  <2>1. inner.output = None
    BY <1>5 DEF Unavailable
  <2>2. result.seen.status = "unavailable"
    BY <1>3, <2>1 DEF LocatedByContract, Unavailable
  <2>3. Says = Told("not confidently located", None)
    BY <1>4, <2>2 DEF Summary, ModelDisposition
  <2>4. Says.told \notin {"located", "not located"}
    BY <2>3 DEF Told
  <2>5. QED
    BY <2>1, <2>4 DEF OnlyGroundedIsTold
<1>6. CASE \E o \in Outputs : inner = Result(Grounds(result.call)[o])
  <2>1. PICK o, output :
          o \in Outputs /\ output = GroundFields(o, c) /\ inner = Result(output)
    BY <1>6 DEF Grounds
  <2>2. inner.output = output
    BY <2>1 DEF Result
  <2>3. StaysGrounded(output, c)
    BY <1>2, <2>1, FieldsStand
  <2>4. PICK r : r = result.seen
    OBVIOUS
  <2>5. r = LocatedByContract(Result(output), c) /\ Says = Summary(r)
    BY <1>3, <1>4, <2>1, <2>4
  <2>6. r.status = "success" =>
          /\ FailingFields(inner, c) # DOMAIN c.fields
          /\ ZonesClosed(c) => \/ r.output.zone = None
                               \/ \E i \in DOMAIN c.fields : r.output.zone \in Labels(c.fields[i])
    BY <1>2, <2>1, <2>5, SeenOfGrounded
  <2>7. /\ Says.told \in {"located", "not located"} => r.status = "success"
        /\ Says.told = "located" =>
             Says.zone = IF r.output.zone = None THEN "unknown zone" ELSE r.output.zone
    BY <2>5, SummarySays
  <2>8. QED
    BY <2>2, <2>3, <2>6, <2>7 DEF OnlyGroundedIsTold, ZonesClosed
<1>7. QED
  BY <1>5, <1>6 DEF ToldInv

(* What a notice tells as a fact comes of a grounded output, whatever the  *)
(* model said, by any contract that loads (authored/contract.py:           *)
(* ground_fields; pack.py: _describe).                                     *)
THEOREM GroundedIsTold == EdgeSpec => []OnlyGroundedIsTold
<1> DEFINE Inv == DeviceInv /\ StoresInv /\ LoopInv /\ CallInv /\ HonestInv /\ NodeInv /\ ToldInv
<1>1. EdgeInit => Inv
  <2> SUFFICES ASSUME EdgeInit
               PROVE  Inv
    OBVIOUS
  <2>1. DeviceInv /\ StoresInv
    BY DeviceInvInit, StoresInvInit DEF EdgeInit
  <2>2. LoopInv
    BY Attempts DEF EdgeInit, AppInit, LoopInv
  <2>3. CallInv
    BY OperatorStarts DEF EdgeInit, AppInit, OperatorInit, CallInv, Waiting
  <2>4. HonestInv
    BY DEF EdgeInit, AppInit, OperatorInit, ServerInit, HonestInv, HonestReason, Waiting
  <2>5. NodeInv /\ ToldInv
    BY DEF EdgeInit, AppInit, NodeInv, ToldInv
  <2>6. QED
    BY <2>1, <2>2, <2>3, <2>4, <2>5
<1>2. Inv /\ [EdgeNext]_vars => Inv'
  <2> SUFFICES ASSUME Inv, [EdgeNext]_vars
               PROVE  Inv'
    OBVIOUS
  <2>1. CASE EdgeNext
    <3>1. DeviceInv' /\ StoresInv'
      BY <2>1, DeviceStep, StoresInvInductive
    <3>2. LoopInv' /\ CallInv' /\ HonestInv'
      BY <2>1, LoopStepsAt, CallStep, HonestStep
    <3>3. NodeInv' /\ ToldInv'
      BY <2>1, NodeStep, ToldStep
    <3>4. QED
      BY <3>1, <3>2, <3>3
  <2>2. CASE UNCHANGED vars
    <3>1. UNCHANGED <<appVars, storeVars, operatorVars, heard>>
      BY <2>2 DEF vars, serverVars
    <3>2. DeviceInv' /\ LoopInv' /\ NodeInv'
      BY <3>1 DEF appVars, storeVars, DeviceInv, LoopInv, NodeInv
    <3>3. StoresInv'
      BY <3>1, StoresInvInductive
    <3>4. OperatorInv'
      BY <3>1, OperatorKept DEF CallInv
    <3>5. CallInv'
      BY <3>1, <3>4 DEF appVars, operatorVars, CallInv, Waiting
    <3>6. HonestReason'
      BY <3>1 DEF appVars, HonestInv, HonestReason, Grounds
    <3>7. HonestInv'
      BY <3>1, <3>6 DEF appVars, operatorVars, HonestInv, Waiting
    <3>8. ToldInv'
      BY <3>1 DEF appVars, ToldInv, Grounds, Located
    <3>9. QED
      BY <3>2, <3>3, <3>5, <3>7, <3>8
  <2>3. QED
    BY <2>1, <2>2
<1>3. Inv => OnlyGroundedIsTold
  BY ToldIsGrounded
<1>4. QED
  BY <1>1, <1>2, <1>3, PTL DEF EdgeSpec
=============================================================================
