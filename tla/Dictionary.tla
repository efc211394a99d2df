----------------------------- MODULE Dictionary -----------------------------
(***************************************************************************)
(* PSC_Dictionary (src/src/lib/core/dictionary.c): nested hash tables that *)
(* several threads may use at once.  The tree is kept flat: a bucket is    *)
(* the path of hash digits that leads to it, "tables" are the paths that   *)
(* were split into a table, "items" the entries of the others.  A path of  *)
(* MaxNest digits has a list of entries, here a set: all of it is looked   *)
(* at, whatever its order.  Any shorter one has at most one entry.         *)
(*                                                                         *)
(* With "shared", reserved[i] guards what is below the top-level bucket i: *)
(* -1 for a writer, else the number of readers.  (Without atomics it is a  *)
(* mutex, which allows one reader only.)  Without "shared" one thread uses *)
(* the dictionary, and nothing is locked.                                  *)
(***************************************************************************)
EXTENDS Integers, Sequences, FiniteSetsExt

CONSTANTS Keys, Digits,    \* the keys, and their hashes as sequences of digits
          MaxNest,         \* MAXNEST, the number of digits
          Threads,
          Kinds,           \* deleter and shared, as given to create
          MaxObjs,         \* bound: objects ever stored, named 1..MaxObjs
          Matchers         \* what removeAll may be asked to remove: sets of keys

DictAssumption ==
    /\ MaxNest \in Nat \ {0} /\ MaxObjs \in Nat
    /\ IsFiniteSet(Keys) /\ Keys # {} /\ IsFiniteSet(Threads)
    /\ \A k \in Keys : Digits[k] \in Seq(Nat) /\ Len(Digits[k]) = MaxNest
    /\ Matchers \subseteq SUBSET Keys
    /\ Kinds \subseteq {"global", "each", "none"} \X BOOLEAN

NoObj == 0
Prefix(k, n) == SubSeq(Digits[k], 1, n)
Top(k) == Digits[k][1]
Tops == {Top(k) : k \in Keys}
Paths == {Prefix(k, n) : k \in Keys, n \in 1..MaxNest}

VARIABLES
    dict,        \* [deleter, shared, tables, items, count, alive]
    reserved,    \* the lock of each top-level bucket
    th,          \* what each thread is doing
    past         \* what was done: [map, next, deleted, asked]

dictVars == <<dict, reserved, th, past>>

(* The entries there are, in all buckets. *)
AllEntries(d) == UNION {d.items[p] : p \in Paths}

(* Where the tables lead the digits of a key. *)
Home(tables, k) ==
    Prefix(k, 1 + Cardinality({n \in 1..MaxNest - 1 : Prefix(k, n) \in tables}))

(* The entry of a key, if its bucket has one. *)
EntriesOf(d, k) == {e \in d.items[Home(d.tables, k)] : e.key = k}
EntryOf(d, k) == CHOOSE e \in EntriesOf(d, k) : TRUE

get(d, k) == IF EntriesOf(d, k) = {} THEN NoObj ELSE EntryOf(d, k).obj

(* Whether a deleter is called for the object of an entry: the dictionary's, or *)
(* else the one given with the object.                                          *)
Deletes(d, del) == d.deleter = "global" \/ (d.deleter = "each" /\ del)

(* How often the deleter is called for an object when all of d is freed. *)
DueDeletes(d, o) ==
    Cardinality({e \in AllEntries(d) : e.obj = o /\ Deletes(d, e.del)})

AtRest == [pc |-> "idle", key |-> CHOOSE k \in Keys : TRUE, obj |-> NoObj, del |-> FALSE,
           match |-> {}, left |-> {}, owed |-> {}]

PSC_Dictionary_create ==
    /\ \E kind \in Kinds :
          dict = [deleter |-> kind[1], shared |-> kind[2], tables |-> {}, count |-> 0, alive |-> TRUE,
                  items |-> [p \in Paths |-> {}]]
    /\ reserved = [i \in Tops |-> 0]

DictInit ==
    /\ PSC_Dictionary_create
    /\ th = [t \in Threads |-> AtRest]
    /\ past = [map |-> [k \in Keys |-> NoObj], next |-> 1, asked |-> {},
               deleted |-> [o \in 1..MaxObjs |-> 0]]

(* A dictionary that is not shared is used by one thread. *)
Free(t) ==
    /\ dict.alive /\ th[t].pc = "idle"
    /\ ~dict.shared => t = CHOOSE u \in Threads : TRUE

\* Mutant: readers do not keep a writer out.
Lock_readers(i) ==
    IF dict.shared THEN reserved[i] # -1 /\ reserved' = [reserved EXCEPT ![i] = -1]
                   ELSE UNCHANGED reserved

(* A writer waits for writer and readers of the bucket to be gone. *)
Lock(i) == IF dict.shared
           THEN reserved[i] = 0 /\ reserved' = [reserved EXCEPT ![i] = -1]
           ELSE UNCHANGED reserved

Unlock(i) == reserved' = IF dict.shared THEN [reserved EXCEPT ![i] = 0] ELSE reserved

-----------------------------------------------------------------------------
(* Setting and removing *)

\* Mutant: an entry moves by the digits of the key that takes its place.
Rehash_shift(ts, e, k) == Home(ts, k)

(* An entry in the way moves down, table by table, until the digits differ or *)
(* a list is reached.                                                         *)
Rehash(ts, e, k) == Home(ts, e.key)

Split(d, k) ==
    LET b == Home(d.tables, k)
        e == CHOOSE e \in d.items[b] : TRUE
        ts == d.tables \cup {Prefix(k, n) : n \in {n \in Len(b)..MaxNest - 1 :
                                                     Prefix(k, n) = Prefix(e.key, n)}}
    IN  IF d.items[b] = {} \/ Len(b) = MaxNest THEN d
        ELSE [d EXCEPT !.tables = ts, !.items[b] = {}, !.items[Rehash(ts, e, k)] = {e}]

(* An object is new; with the null object the key is removed.  Removing a key *)
(* that is not there but whose whole hash is that of an entry is left out:    *)
(* see Collides.                                                              *)
Collides(k) ==
    EntriesOf(dict, k) = {} /\ \E e \in AllEntries(dict) : Digits[e.key] = Digits[k]

PSC_Dictionary_set_lock(t, k, removes, del) ==
    /\ Free(t)
    /\ removes \/ past.next <= MaxObjs
    /\ del => ~removes /\ dict.deleter = "each"
    /\ Lock(Top(k))
    /\ ~(removes /\ Collides(k))
    /\ th' = [th EXCEPT ![t] = [AtRest EXCEPT !.pc = "set", !.key = k, !.del = del,
                                              !.obj = IF removes THEN NoObj ELSE past.next]]
    /\ past' = IF removes THEN past
               ELSE [past EXCEPT !.next = @ + 1,
                                 !.asked = IF Deletes(dict, del) THEN @ \cup {past.next}
                                                                 ELSE @]
    /\ UNCHANGED dict

(* What a thread stores. *)
Entry(t) == [key |-> th[t].key, obj |-> th[t].obj, del |-> th[t].del]

(* The key is there: its object is deleted first. *)
set_delete(t) ==
    LET k == th[t].key
        e == EntryOf(dict, k)
    IN  /\ th[t].pc = "set" /\ EntriesOf(dict, k) # {}
        /\ past' = IF Deletes(dict, e.del) THEN [past EXCEPT !.deleted[e.obj] = @ + 1] ELSE past
        /\ th' = [th EXCEPT ![t].pc = IF th[t].obj = NoObj THEN "remove" ELSE "replace"]
        /\ UNCHANGED <<dict, reserved>>

set_replace(t) ==
    LET k == th[t].key
        b == Home(dict.tables, k)
    IN  /\ th[t].pc = "replace"
        /\ dict' = [dict EXCEPT !.items[b] = (@ \ {EntryOf(dict, k)}) \cup {Entry(t)}]
        /\ past' = [past EXCEPT !.map[k] = th[t].obj]
        /\ th' = [th EXCEPT ![t].pc = "unlock"]
        /\ UNCHANGED reserved

(* The entry is taken out of its bucket, its table stays. *)
set_remove(t) ==
    LET k == th[t].key
        b == Home(dict.tables, k)
    IN  /\ th[t].pc = "remove"
        /\ dict' = [dict EXCEPT !.items[b] = {e \in @ : e.key # k}]
        /\ past' = [past EXCEPT !.map[k] = NoObj]
        /\ th' = [th EXCEPT ![t].pc = "uncount"]
        /\ UNCHANGED reserved

set_uncount(t) ==
    /\ th[t].pc = "uncount"
    /\ dict' = [dict EXCEPT !.count = @ - 1]
    /\ th' = [th EXCEPT ![t].pc = "unlock"]
    /\ UNCHANGED <<reserved, past>>

(* The key is not there: make room for it, and count the entry that is created. *)
createEntry(t) ==
    LET d == Split(dict, th[t].key)
    IN  /\ th[t].pc = "set" /\ EntriesOf(dict, th[t].key) = {}
        /\ \/ /\ th[t].obj = NoObj
              /\ dict' = d
              /\ th' = [th EXCEPT ![t].pc = "unlock"]
           \/ /\ th[t].obj # NoObj
              /\ dict' = [d EXCEPT !.count = @ + 1]
              /\ th' = [th EXCEPT ![t].pc = "link"]
        /\ UNCHANGED <<reserved, past>>

set_link(t) ==
    LET k == th[t].key
        b == Home(dict.tables, k)
    IN  /\ th[t].pc = "link"
        /\ dict' = [dict EXCEPT !.items[b] = @ \cup {Entry(t)}]
        /\ past' = [past EXCEPT !.map[k] = th[t].obj]
        /\ th' = [th EXCEPT ![t].pc = "unlock"]
        /\ UNCHANGED reserved

PSC_Dictionary_set_unlock(t) ==
    /\ th[t].pc = "unlock"
    /\ Unlock(Top(th[t].key))
    /\ th' = [th EXCEPT ![t] = AtRest]
    /\ UNCHANGED <<dict, past>>

PSC_Dictionary_set(t) ==
    \/ \E k \in Keys, removes, del \in BOOLEAN : PSC_Dictionary_set_lock(t, k, removes, del)
    \/ set_delete(t) \/ set_replace(t) \/ set_remove(t) \/ set_uncount(t)
    \/ createEntry(t) \/ set_link(t)
    \/ PSC_Dictionary_set_unlock(t)

-----------------------------------------------------------------------------
(* Looking up *)

PSC_Dictionary_get_lock(t, k) ==
    /\ Free(t)
    /\ dict.shared => reserved[Top(k)] >= 0
    /\ reserved' = IF dict.shared THEN [reserved EXCEPT ![Top(k)] = @ + 1] ELSE reserved
    /\ th' = [th EXCEPT ![t] = [AtRest EXCEPT !.pc = "get", !.key = k]]
    /\ UNCHANGED <<dict, past>>

PSC_Dictionary_get(t) ==
    /\ th[t].pc = "get"
    /\ th' = [th EXCEPT ![t].obj = get(dict, th[t].key), ![t].pc = "got"]
    /\ UNCHANGED <<dict, reserved, past>>

PSC_Dictionary_get_unlock(t) ==
    /\ th[t].pc = "got"
    /\ reserved' = IF dict.shared THEN [reserved EXCEPT ![Top(th[t].key)] = @ - 1]
                                  ELSE reserved
    /\ th' = [th EXCEPT ![t] = AtRest]
    /\ UNCHANGED <<dict, past>>

-----------------------------------------------------------------------------
(* Removing what matches, and everything *)

(* Nothing is looked at when the dictionary counts no entry. *)
PSC_Dictionary_removeAll(t, m) ==
    /\ Free(t)
    /\ th' = [th EXCEPT ![t] =
                [AtRest EXCEPT !.match = m,
                               !.pc = IF dict.count = 0 THEN "removed" ELSE "removeAll",
                               !.left = IF dict.count = 0 THEN {} ELSE Tops,
                               !.owed = {past.map[k] : k \in m} \ {NoObj}]]
    /\ UNCHANGED <<dict, reserved, past>>

PSC_Dictionary_removeAll_lock(t) ==
    /\ th[t].pc = "removeAll" /\ th[t].left # {}
    /\ Lock(Min(th[t].left))
    /\ th' = [th EXCEPT ![t].pc = "removing"]
    /\ UNCHANGED <<dict, past>>

(* All that matches below one top-level bucket, lists included. *)
removeAll(t) ==
    LET i == Min(th[t].left)
        m == th[t].match
        d == [dict EXCEPT !.items = [p \in Paths |->
                 IF Head(p) = i THEN {e \in @[p] : e.key \notin m} ELSE @[p]]]
    IN  /\ th[t].pc = "removing"
        /\ dict' = [d EXCEPT !.count = @ - Cardinality(AllEntries(dict)) + Cardinality(AllEntries(d))]
        /\ past' = [past EXCEPT !.deleted = [o \in 1..MaxObjs |->
                                                @[o] + DueDeletes(dict, o) - DueDeletes(d, o)],
                                !.map = [k \in Keys |-> IF Top(k) = i /\ k \in m
                                                        THEN NoObj ELSE @[k]]]
        /\ th' = [th EXCEPT ![t].pc = "unlockAll"]
        /\ UNCHANGED reserved

PSC_Dictionary_removeAll_unlock(t) ==
    LET i == Min(th[t].left)
    IN  /\ th[t].pc = "unlockAll"
        /\ Unlock(i)
        /\ th' = [th EXCEPT ![t].left = @ \ {i},
                            ![t].pc = IF th[t].left = {i} THEN "removed" ELSE "removeAll"]
        /\ UNCHANGED <<dict, past>>

PSC_Dictionary_removeAll_return(t) ==
    /\ th[t].pc = "removed"
    /\ th' = [th EXCEPT ![t] = AtRest]
    /\ UNCHANGED <<dict, reserved, past>>

(* Nobody uses the dictionary any more. *)
PSC_Dictionary_destroy ==
    /\ dict.alive /\ \A t \in Threads : th[t].pc = "idle"
    /\ dict' = [dict EXCEPT !.alive = FALSE, !.tables = {}, !.count = 0,
                            !.items = [p \in Paths |-> {}]]
    /\ past' = [past EXCEPT !.deleted = [o \in 1..MaxObjs |-> @[o] + DueDeletes(dict, o)],
                            !.map = [k \in Keys |-> NoObj]]
    /\ UNCHANGED <<reserved, th>>

DictNext ==
    \/ \E t \in Threads :
          \/ PSC_Dictionary_set(t)
          \/ \E k \in Keys : PSC_Dictionary_get_lock(t, k)
          \/ PSC_Dictionary_get(t) \/ PSC_Dictionary_get_unlock(t)
          \/ \E m \in Matchers : PSC_Dictionary_removeAll(t, m)
          \/ PSC_Dictionary_removeAll_lock(t) \/ removeAll(t)
          \/ PSC_Dictionary_removeAll_unlock(t) \/ PSC_Dictionary_removeAll_return(t)
    \/ PSC_Dictionary_destroy

DictSpec == DictInit /\ [][DictNext]_dictVars

-----------------------------------------------------------------------------
(* Properties *)

Writers == {t \in Threads : th[t].pc \notin {"idle", "get", "got", "removed"}}

\* dictionary.c, set and get: whatever was split, chained and removed before, get
\* finds what was last set for a key while nobody writes to its bucket, and the
\* count is that of the keys when nobody writes at all.
IsMap ==
    /\ \A k \in Keys : (\A t \in Writers : th[t].match = {} /\ Top(th[t].key) # Top(k))
                          => get(dict, k) = past.map[k]
    /\ Writers = {} => dict.count = Cardinality({k \in Keys : past.map[k] # NoObj})

\* dictionary.c, removeAll: what matched when it was called is not there when it
\* returns, also if the shortcut for an empty dictionary was taken while other
\* threads were setting and removing.
AllRemoved ==
    \A t \in Threads : th[t].pc = "removed" => \A k \in Keys : past.map[k] \notin th[t].owed

\* dictionary.c, deleters: an object is deleted once after it was replaced, removed
\* or destroyed with the dictionary, if a deleter applies to it, and never before.
DeletedOnce ==
    LET stored == {past.map[k] : k \in Keys}
        held == stored \cup {th[t].obj : t \in Writers}
    IN  \A o \in 1..past.next - 1 :
          /\ past.deleted[o] <= (IF o \in past.asked THEN 1 ELSE 0)
          /\ o \in past.asked /\ o \notin held => past.deleted[o] = 1
          /\ past.deleted[o] = 1 /\ o \in stored
               => \E t \in Writers : th[t].pc \in {"replace", "remove"}
                                     /\ past.map[th[t].key] = o

\* dictionary.c, reserved: a reader is given an object that is not deleted while the
\* reader holds its bucket.
ReadAlive == \A t \in Threads : th[t].pc = "got" /\ th[t].obj # NoObj
                                  => past.deleted[th[t].obj] = 0

\* Whatever was split, chained and removed before, get finds what was last set,
\* the count is right, and removeAll leaves nothing that matched before.
DictionaryIsMap == IsMap /\ AllRemoved

\* An object is deleted once and as asked when it leaves the dictionary, never
\* before and never while a reader holds its bucket.
DeletedSafely == DeletedOnce /\ ReadAlive

-----------------------------------------------------------------------------
(* The inductive invariant *)

EntrySet == [key : Keys, obj : 1..MaxObjs, del : BOOLEAN]
InSet == {"set", "replace", "remove", "uncount", "link", "unlock"}
InRemoveAll == {"removeAll", "removing", "unlockAll", "removed"}

DictSet == [deleter : {"global", "each", "none"}, shared : BOOLEAN, tables : SUBSET Paths,
            items : [Paths -> SUBSET EntrySet], count : Int, alive : BOOLEAN]
ThreadSet == [pc : {"idle", "get", "got"} \cup InSet \cup InRemoveAll, key : Keys,
              obj : 0..MaxObjs, del : BOOLEAN, match : SUBSET Keys, left : SUBSET Tops,
              owed : SUBSET (1..MaxObjs)]
PastSet == [map : [Keys -> 0..MaxObjs], next : 1..MaxObjs + 1, asked : SUBSET (1..MaxObjs),
            deleted : [1..MaxObjs -> Int]]
DictTypeOK == /\ dict \in DictSet /\ reserved \in [Tops -> Int]
              /\ th \in [Threads -> ThreadSet] /\ past \in PastSet

\* The tables above a table are tables; an entry is where the digits of its key lead, one
\* for each key, and alone unless it is in a list.
Closed(tables) == \A k \in Keys, n \in 1..MaxNest : \A m \in 1..n :
                     Prefix(k, n) \in tables => n < MaxNest /\ Prefix(k, m) \in tables
Placed(d) == \A p \in Paths : \A e \in d.items[p] : p = Home(d.tables, e.key)
Single(d) == \A p \in Paths : \A e, f \in d.items[p] :
                Len(p) < MaxNest \/ e.key = f.key => e = f
WellFormed(d) == Closed(d.tables) /\ Placed(d) /\ Single(d)

\* The bucket for a key is a list, or has no entry.
HasRoom(d, k) == Len(Home(d.tables, k)) = MaxNest \/ d.items[Home(d.tables, k)] = {}

\* The top-level buckets a thread holds as a writer and as a reader.
Writes(t) == IF th[t].pc \in InSet THEN {Top(th[t].key)}
             ELSE IF th[t].pc \in {"removing", "unlockAll"} THEN {Min(th[t].left)} ELSE {}
Reads(t) == IF th[t].pc \in {"get", "got"} THEN {Top(th[t].key)} ELSE {}
Readers(i) == {t \in Threads : i \in Reads(t)}
LocksFit ==
    /\ dict.shared => \A i \in Tops :
          /\ (reserved[i] = -1) <=> \E t \in Threads : i \in Writes(t)
          /\ \A t, u \in Threads : i \in Writes(t) /\ i \in Writes(u) => t = u
          /\ reserved[i] = -1 => Readers(i) = {}
          /\ reserved[i] # -1 => reserved[i] = Cardinality(Readers(i))
    /\ ~dict.shared => \A t \in Threads : t = (CHOOSE u \in Threads : TRUE) \/ th[t].pc = "idle"

\* The entries are the map, and counted but for those about to be linked or just removed.
Linking == {t \in Threads : th[t].pc \in {"link", "uncount"}}
EntriesFit ==
    /\ \A e \in AllEntries(dict) : past.map[e.key] = e.obj
    /\ \A k \in Keys : past.map[k] # NoObj => \E e \in AllEntries(dict) : e.key = k
    /\ dict.count = Cardinality(AllEntries(dict)) + Cardinality(Linking)

\* Objects: stored once, about to be stored by one thread, or gone.
Adds(t) == th[t].pc \in {"set", "replace", "link"} /\ th[t].obj # NoObj
Replaced(k) == \E t \in Threads : th[t].pc \in {"replace", "remove"} /\ th[t].key = k
EntryFits(e) ==
    /\ e.obj < past.next /\ (e.obj \in past.asked <=> Deletes(dict, e.del))
    /\ past.deleted[e.obj] = IF Deletes(dict, e.del) /\ Replaced(e.key) THEN 1 ELSE 0
AddFits(t) ==
    /\ th[t].obj < past.next /\ (th[t].obj \in past.asked <=> Deletes(dict, th[t].del))
    /\ past.deleted[th[t].obj] = 0
    /\ \A k \in Keys : past.map[k] # th[t].obj
    /\ \A u \in Threads : th[t].obj \notin th[u].owed
                          /\ (Adds(u) /\ th[u].obj = th[t].obj => u = t)
ObjFits(o) ==
    IF o >= past.next
    THEN past.deleted[o] = 0 /\ o \notin past.asked /\ \A u \in Threads : o \notin th[u].owed
    ELSE \/ past.deleted[o] = IF o \in past.asked THEN 1 ELSE 0
         \/ \E k \in Keys : past.map[k] = o
         \/ \E t \in Threads : Adds(t) /\ th[t].obj = o
ObjectsFit ==
    /\ \A e, f \in AllEntries(dict) : e.obj = f.obj => e = f
    /\ \A e \in AllEntries(dict) : EntryFits(e)
    /\ \A t \in Threads : Adds(t) => AddFits(t)
    /\ \A o \in 1..MaxObjs : ObjFits(o)

\* What a thread knows of its key, and what removeAll has still to remove.
StepFits(t) ==
    LET s == th[t]
    IN  /\ s.pc = "replace" => s.obj # NoObj /\ past.map[s.key] # NoObj
        /\ s.pc = "remove" => s.obj = NoObj /\ past.map[s.key] # NoObj
        /\ s.pc = "link" => s.obj # NoObj /\ past.map[s.key] = NoObj /\ HasRoom(dict, s.key)
        /\ s.pc = "got" => s.obj = past.map[s.key]
        /\ s.pc \in {"removing", "unlockAll"} => s.left # {}
        /\ \A k \in Keys : past.map[k] \in s.owed =>
              /\ s.pc \in InRemoveAll \ {"removed"} /\ k \in s.match /\ Top(k) \in s.left
              /\ s.pc = "unlockAll" => Top(k) # Min(s.left)

DictInv == /\ DictTypeOK /\ WellFormed(dict) /\ LocksFit
           /\ EntriesFit /\ ObjectsFit /\ \A t \in Threads : StepFits(t)
=============================================================================
