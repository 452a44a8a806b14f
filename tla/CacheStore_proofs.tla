--------------------------- MODULE CacheStore_proofs ---------------------------
(***************************************************************************)
(* The entry files implement a map of whole responses, for any number of   *)
(* keys, workers, files, process numbers and deaths, and any lengths.  The *)
(* invariant says which inodes are apart, so that the writer's is the only *)
(* one that changes, and what is in each of them.                          *)
(***************************************************************************)
EXTENDS CacheStore, SequenceTheorems, TLAPS

Writes(w) == pc[w] \in {"writing", "renaming"}

\* No inode has two temporary names, or one and another use.
Apart ==
    /\ \A n, m \in Names : partial[n] # None /\ partial[n] = partial[m] => n = m
    /\ \A n \in Names, k \in Keys : partial[n] # None => entry[k] # partial[n]
    /\ \A n \in Names, w \in Workers : partial[n] # None => held[w] # partial[n]

\* A writer's name is of this process and its serial is not used again.
Named ==
    /\ \A w \in Workers : Writes(w) =>
          /\ temp[w] \in Names /\ temp[w][1] = pid /\ temp[w][2] <= serial
          /\ partial[temp[w]] # None
          /\ key[w] \in Keys /\ source[w] \in Versions
          /\ pc[w] = "writing" => handle[w] = partial[temp[w]]
    /\ \A w, u \in Workers : Writes(w) /\ Writes(u) /\ temp[w] = temp[u] => w = u

\* A worker that does nothing with the cache has nothing mapped.
IdleHoldsNothing ==
    \A w \in Workers :
        /\ pc[w] = "idle" => held[w] = None
        /\ pc[w] = "reading" => held[w] # None /\ key[w] \in Keys

\* The whole of a response for the key.
Stored(file, k) == Whole(file) /\ file.key = k

AllStored ==
    /\ \A k \in Keys : entry[k] # None => Stored(inode[entry[k]], k)
    /\ \A w \in Workers : held[w] # None => Stored(inode[held[w]], key[w])

\* So far the file is the beginning of the response.
Filling(w) ==
    LET file == inode[partial[temp[w]]]
    IN /\ file.key = key[w] /\ file.of = source[w]
       /\ file.body = [n \in 1..written[w] |-> source[w]]
       /\ written[w] <= EntryLimit
       /\ held[w] # None => inode[held[w]].of = source[w]

InFile(w) ==
    /\ pc[w] = "writing" => Filling(w)
    /\ pc[w] = "renaming" =>
          Stored(inode[partial[temp[w]]], key[w]) /\ inode[partial[temp[w]]].of = source[w]

AllInFile == \A w \in Workers : InFile(w)

IInv == TypeOK /\ Apart /\ Named /\ IdleHoldsNothing /\ AllStored /\ AllInFile

-----------------------------------------------------------------------------
(* Bodies and inodes. *)

LEMMA Constant ==
    ASSUME NEW v \in Versions, NEW n \in Nat
    PROVE  /\ [m \in 1..n |-> v] \in Seq(Versions)
           /\ Len([m \in 1..n |-> v]) = n
           /\ Append([m \in 1..n |-> v], v) = [m \in 1..(n + 1) |-> v]
<1>1. [m \in 1..n |-> v] \in Seq(Versions) /\ [m \in 1..(n + 1) |-> v] \in Seq(Versions)
    BY IsASeq
<1>2. Len([m \in 1..n |-> v]) = n /\ Len([m \in 1..(n + 1) |-> v]) = n + 1
    OBVIOUS
<1>3. Append([m \in 1..n |-> v], v) \in Seq(Versions)
    BY <1>1, AppendProperties
<1>4. Len(Append([m \in 1..n |-> v], v)) = n + 1
    BY <1>1, <1>2, AppendProperties
<1>5. \A i \in 1..(n + 1) : Append([m \in 1..n |-> v], v)[i] = [m \in 1..(n + 1) |-> v][i]
    <2> SUFFICES ASSUME NEW i \in 1..(n + 1)
                 PROVE  Append([m \in 1..n |-> v], v)[i] = v
        OBVIOUS
    <2>1. CASE i = n + 1
        BY <1>1, <1>2, <2>1, AppendProperties
    <2>2. CASE i \in 1..n
        <3>1. Append([m \in 1..n |-> v], v)[i] = [m \in 1..n |-> v][i]
            BY <1>1, <1>2, <2>2, AppendProperties
        <3> QED
            BY <2>2, <3>1
    <2> QED
        BY <2>1, <2>2
<1> QED
    BY <1>1, <1>2, <1>3, <1>4, <1>5, SeqEqual

LEMMA LengthType == \A v \in Versions : v \in Nat /\ v # 0 /\ Length[v] \in Nat
BY ConstantsAssumption, LenProperties, ElementOfSeq DEF Versions

\* What becomes of the contents of the inodes that are still in use.
LEMMA InodesChange ==
    ASSUME NEW new \in [Inodes -> Contents],
           \A i \in Inodes : Len(new[i].body) <= EntryLimit,
           SetInodes(new)
    PROVE  /\ inode' \in [Inodes -> Contents]
           /\ \A i \in Inodes : Len(inode'[i].body) <= EntryLimit
           /\ \A k \in Keys : entry'[k] \in Inodes => inode'[entry'[k]] = new[entry'[k]]
           /\ \A n \in Names : partial'[n] \in Inodes => inode'[partial'[n]] = new[partial'[n]]
           /\ \A w \in Workers : held'[w] \in Inodes => inode'[held'[w]] = new[held'[w]]
<1>1. Blank \in Contents /\ Len(Blank.body) = 0
    <2>1. <<>> \in Seq(Versions) /\ Len(<<>>) = 0
        BY EmptySeq
    <2> QED
        BY <2>1 DEF Blank, Contents
<1>2. EntryLimit \in Nat
    BY ConstantsAssumption
<1>3. \A i \in Inodes : inode'[i] = IF i \in Referenced' THEN new[i] ELSE Blank
    BY DEF SetInodes
<1>4. inode' \in [Inodes -> Contents]
    BY <1>1 DEF SetInodes
<1>5. \A i \in Inodes : Len(inode'[i].body) <= EntryLimit
    BY <1>1, <1>2, <1>3
<1> QED
    BY <1>3, <1>4, <1>5 DEF Referenced

\* A whole file has the length it records.
LEMMA WholeBody ==
    ASSUME NEW file \in Contents, Whole(file)
    PROVE  /\ file.of \in Versions
           /\ file.body \in Seq(Versions)
           /\ SubSeq(file.body, 1, file.recorded) = [n \in 1..Length[file.of] |-> file.of]
<1>1. file.body \in Seq(Versions)
    BY DEF Contents
<1> QED
    BY <1>1, SubSeqFull DEF Whole

\* A writer writes all of one response, a new one or the one it has mapped.
LEMMA BodyIsResponse ==
    ASSUME IInv, NEW w \in Workers, pc[w] = "writing"
    PROVE  /\ Body(w) = [n \in 1..Length[source[w]] |-> source[w]]
           /\ Len(Body(w)) = Length[source[w]]
<1> USE DEF IInv
<1>1. source[w] \in Versions /\ Filling(w)
    BY DEF Named, AllInFile, InFile, Writes
<1>2. Len([n \in 1..Length[source[w]] |-> source[w]]) = Length[source[w]]
    BY <1>1, LengthType
<1>3. CASE held[w] = None
    BY <1>2, <1>3 DEF Body
<1>4. CASE held[w] # None
    <2>1. held[w] \in Inodes /\ Whole(inode[held[w]])
        BY <1>4 DEF TypeOK, AllStored, Stored
    <2>2. inode[held[w]].of = source[w] /\ inode[held[w]] \in Contents
        BY <1>1, <1>4, <2>1 DEF Filling, TypeOK
    <2>3. Body(w) = [n \in 1..Length[source[w]] |-> source[w]]
        BY <1>4, <2>1, <2>2, WholeBody DEF Body
    <2> QED
        BY <1>2, <2>3
<1> QED
    BY <1>3, <1>4

-----------------------------------------------------------------------------
(* The steps that only change names and who uses what. *)

\* Files that are still in use stay as they are.
LEMMA FilesStay ==
    ASSUME IInv, SetInodes(inode)
    PROVE  /\ inode' \in [Inodes -> Contents]
           /\ \A i \in Inodes : Len(inode'[i].body) <= EntryLimit
           /\ \A k \in Keys : entry'[k] \in Inodes => inode'[entry'[k]] = inode[entry'[k]]
           /\ \A n \in Names : partial'[n] \in Inodes => inode'[partial'[n]] = inode[partial'[n]]
           /\ \A w \in Workers : held'[w] \in Inodes => inode'[held'[w]] = inode[held'[w]]
BY InodesChange DEF IInv, TypeOK

\* A response stays stored in a file that does not change.
LEMMA StoredStays ==
    ASSUME \A k \in Keys : entry'[k] # None =>
               entry'[k] = entry[k] /\ inode'[entry[k]] = inode[entry[k]],
           \A w \in Workers : held'[w] # None =>
               /\ held'[w] = held[w] /\ key'[w] = key[w]
               /\ inode'[held[w]] = inode[held[w]],
           AllStored
    PROVE  AllStored'
BY DEF AllStored

\* A writer for which nothing changes.
Stays(w) ==
    /\ UNCHANGED <<pc[w], key[w], source[w], written[w], held[w], partial[temp[w]]>>
    /\ inode'[partial[temp[w]]] = inode[partial[temp[w]]]
    /\ held[w] # None => inode'[held[w]] = inode[held[w]]

LEMMA InFileStays ==
    ASSUME NEW w, InFile(w), Stays(w)
    PROVE  InFile(w)'
BY DEF InFile, Filling, Stays

LEMMA OnlyWritersInFile ==
    ASSUME \A w \in Workers : Writes(w)' => InFile(w)'
    PROVE  AllInFile'
BY DEF AllInFile, InFile, Writes

\* What a key or a reader refers to before and after a step is the same response.
Keeps ==
    /\ \A k \in Keys : entry[k] # None /\ entry'[k] = entry[k] =>
           inode'[entry[k]].of = inode[entry[k]].of
    /\ \A w \in Workers : held[w] # None /\ held'[w] = held[w] =>
           inode'[held[w]].of = inode[held[w]].of

LEMMA NamesKeep ==
    ASSUME IInv, SetInodes(inode)
    PROVE  Keeps
BY FilesStay DEF Keeps, IInv, TypeOK

LEMMA InitInv ==
    ASSUME Init
    PROVE  IInv
<1>1. Blank \in Contents /\ Len(Blank.body) = 0
    <2>1. <<>> \in Seq(Versions) /\ Len(<<>>) = 0
        BY EmptySeq
    <2> QED
        BY <2>1 DEF Blank, Contents
<1>2. TypeOK
    BY <1>1, ConstantsAssumption DEF Init, TypeOK, States
<1>3. Apart /\ Named /\ IdleHoldsNothing /\ AllStored /\ AllInFile
    BY DEF Init, Apart, Named, Writes, IdleHoldsNothing, AllStored, AllInFile, InFile
<1> QED
    BY <1>2, <1>3 DEF IInv

LEMMA UnlinkInv ==
    ASSUME IInv, NEW k \in Keys, Unlink(k)
    PROVE  IInv'
<1> USE DEF IInv
<1>1. UNCHANGED <<partial, pid, serial, deaths, produced, pc, key, temp, handle, source, written, held>>
    BY DEF Unlink, processVars
<1>2. TypeOK'
    BY <1>1, FilesStay DEF Unlink, TypeOK
<1>3. Apart'
    BY <1>1 DEF Unlink, Apart, TypeOK
<1>4. Named' /\ IdleHoldsNothing'
    BY <1>1 DEF Named, IdleHoldsNothing, Writes
<1>5. AllStored'
    BY <1>1, FilesStay, <1>2, StoredStays DEF Unlink, Forget, TypeOK
<1>6. \A u \in Workers : Writes(u)' => Stays(u)
    BY <1>1, FilesStay, <1>2 DEF Unlink, Forget, Goto, Stays, Named, Writes, TypeOK
<1>7. AllInFile'
    BY <1>6, InFileStays, OnlyWritersInFile DEF AllInFile
<1> QED
    BY <1>2, <1>3, <1>4, <1>5, <1>7

LEMMA SweepPartialsInv ==
    ASSUME IInv, SweepPartials
    PROVE  IInv'
<1> USE DEF IInv
<1>1. UNCHANGED <<entry, pid, serial, deaths, produced, pc, key, temp, handle, source, written, held>>
    BY DEF SweepPartials, processVars
<1>2. \A n \in Names : partial'[n] = None \/ partial'[n] = partial[n]
    BY DEF SweepPartials
<1>3. TypeOK'
    BY <1>1, FilesStay DEF SweepPartials, TypeOK
<1>4. Apart'
    BY <1>1, <1>2 DEF Apart, TypeOK
<1>5. \A w \in Workers : Writes(w) => partial'[temp[w]] = partial[temp[w]]
    BY DEF SweepPartials, Foreign, Named
<1>6. Named' /\ IdleHoldsNothing'
    BY <1>1, <1>5 DEF Named, IdleHoldsNothing, Writes
<1>7. AllStored'
    BY <1>1, FilesStay, <1>3, StoredStays DEF SweepPartials, Forget, TypeOK
<1>8. \A u \in Workers : Writes(u)' => Stays(u)
    <2> SUFFICES ASSUME NEW u \in Workers, Writes(u)'
                 PROVE  Stays(u)
        OBVIOUS
    <2>1. Writes(u) /\ temp[u] \in Names /\ partial[temp[u]] \in Inodes
        BY <1>1 DEF Writes, Named, TypeOK
    <2>2. partial'[temp[u]] = partial[temp[u]] /\ partial'[temp'[u]] = partial[temp[u]]
        BY <1>1, <1>5, <2>1
    <2>3. inode'[partial[temp[u]]] = inode[partial[temp[u]]]
        BY <2>1, <2>2, FilesStay DEF SweepPartials
    <2> QED
        BY <1>1, <2>2, <2>3, FilesStay DEF SweepPartials, Stays, TypeOK
<1>9. AllInFile'
    BY <1>8, InFileStays, OnlyWritersInFile DEF AllInFile
<1> QED
    BY <1>3, <1>4, <1>6, <1>7, <1>9

LEMMA ReadInv ==
    ASSUME IInv, NEW w \in Workers, NEW k \in Keys, Read(w, k)
    PROVE  IInv'
<1> USE DEF IInv
<1>1. UNCHANGED <<inode, entry, partial, pid, serial, deaths, produced, temp, handle, source, written>>
    BY DEF Read, processVars
<1>2. TypeOK'
    BY <1>1 DEF Read, Goto, TypeOK, States
<1>3. Apart'
    BY <1>1 DEF Read, Apart, TypeOK
<1>4. Named' /\ IdleHoldsNothing'
    BY <1>1 DEF Read, Goto, Named, IdleHoldsNothing, Writes, TypeOK
<1>5. AllStored'
    BY <1>1 DEF Read, AllStored, Stored, TypeOK
<1>6. \A u \in Workers : Writes(u)' => Stays(u)
    BY <1>1 DEF Read, Goto, Stays, Named, Writes, TypeOK
<1>7. AllInFile'
    BY <1>6, InFileStays, OnlyWritersInFile DEF AllInFile
<1> QED
    BY <1>2, <1>3, <1>4, <1>5, <1>7

\* A worker that lets go of everything.
LEMMA FinishInv ==
    ASSUME IInv, NEW w \in Workers, Finish(w)
    PROVE  IInv'
<1> USE DEF IInv
<1>1. UNCHANGED <<entry, partial, pid, serial, deaths, produced>>
    BY DEF Finish, processVars
<1>2. TypeOK'
    BY <1>1, FilesStay DEF Finish, Forget, Goto, TypeOK, States
<1>3. Apart'
    BY <1>1 DEF Finish, Forget, Apart, TypeOK
<1>4. Named' /\ IdleHoldsNothing'
    BY <1>1 DEF Finish, Forget, Goto, Named, IdleHoldsNothing, Writes, TypeOK
<1>5. AllStored'
    BY <1>1, FilesStay, <1>2, StoredStays DEF Finish, Forget, TypeOK
<1>6. \A u \in Workers : Writes(u)' => Stays(u)
    BY <1>1, FilesStay, <1>2 DEF Finish, Forget, Goto, Stays, Named, Writes, TypeOK
<1>7. AllInFile'
    BY <1>6, InFileStays, OnlyWritersInFile DEF AllInFile
<1> QED
    BY <1>2, <1>3, <1>4, <1>5, <1>7

LEMMA AbandonInv ==
    ASSUME IInv, NEW w \in Workers, Abandon(w)
    PROVE  IInv'
<1> USE DEF IInv
<1>1. UNCHANGED <<entry, pid, serial, deaths, produced>>
    BY DEF Abandon, processVars
<1>2. temp[w] \in Names
    BY DEF Abandon, Named, Writes
<1>3. TypeOK'
    BY <1>1, <1>2, FilesStay DEF Abandon, Forget, Goto, TypeOK, States
<1>4. Apart'
    BY <1>1, <1>2 DEF Abandon, Forget, Apart, TypeOK
<1>5. \A u \in Workers : Writes(u)' =>
          /\ u # w /\ Writes(u)
          /\ partial'[temp[u]] = partial[temp[u]]
          /\ UNCHANGED <<pc[u], temp[u], key[u], source[u], written[u], handle[u], held[u]>>
    BY <1>2 DEF Abandon, Forget, Goto, Named, Writes, TypeOK
<1>6. Named'
    BY <1>1, <1>5 DEF Named, Writes
<1>7. IdleHoldsNothing'
    BY DEF Abandon, Forget, Goto, IdleHoldsNothing, TypeOK
<1>8. AllStored'
    BY <1>1, FilesStay, <1>3, StoredStays DEF Abandon, Forget, TypeOK
<1>9. \A u \in Workers : Writes(u)' => Stays(u)
    BY <1>1, <1>5, FilesStay, <1>3 DEF Abandon, Forget, Goto, Stays, Named, Writes, TypeOK
<1>10. AllInFile'
    BY <1>9, InFileStays, OnlyWritersInFile DEF AllInFile
<1> QED
    BY <1>3, <1>4, <1>6, <1>7, <1>8, <1>10

\* What was partial[temp[w]] is then under the name of the key only.
LEMMA RenameInv ==
    ASSUME IInv, NEW w \in Workers, Rename(w)
    PROVE  IInv'
<1> USE DEF IInv
<1>1. UNCHANGED <<pid, serial, deaths, produced, key, temp, handle, source, written, held>>
    BY DEF Rename, processVars
<1>2. temp[w] \in Names /\ key[w] \in Keys /\ partial[temp[w]] \in Inodes
    BY DEF Rename, Named, Writes, TypeOK
<1>3. entry' = [entry EXCEPT ![key[w]] = partial[temp[w]]]
    BY <1>2, ConstantsAssumption DEF Rename
<1>4. TypeOK'
    BY <1>1, <1>2, <1>3, FilesStay DEF Rename, Goto, TypeOK, States
<1>5. Apart'
    BY <1>1, <1>2, <1>3 DEF Rename, Apart, TypeOK
<1>6. \A u \in Workers : Writes(u)' =>
          u # w /\ Writes(u) /\ pc'[u] = pc[u] /\ partial'[temp[u]] = partial[temp[u]]
    BY <1>2 DEF Rename, Goto, Named, Writes, TypeOK
<1>7. Named'
    BY <1>1, <1>6 DEF Named, Writes
<1>8. IdleHoldsNothing'
    BY <1>1 DEF Rename, Goto, IdleHoldsNothing, TypeOK
<1>9. AllStored'
    <2>1. Stored(inode[partial[temp[w]]], key[w])
        BY DEF Rename, AllInFile, InFile
    <2>2. \A k \in Keys : entry'[k] # None =>
              entry'[k] \in Inodes /\ Stored(inode[entry'[k]], k)
        BY <1>2, <1>3, <2>1 DEF AllStored, TypeOK
    <2>3. \A k \in Keys : entry'[k] # None => Stored(inode'[entry'[k]], k)
        BY <2>2, FilesStay DEF Rename
    <2>4. \A u \in Workers : held'[u] # None => Stored(inode'[held'[u]], key'[u])
        BY <1>1, FilesStay DEF Rename, AllStored, TypeOK
    <2> QED
        BY <2>3, <2>4 DEF AllStored
<1>10. \A u \in Workers : Writes(u)' => Stays(u)
    BY <1>1, <1>6, FilesStay, <1>4 DEF Rename, Forget, Goto, Stays, Named, Writes, TypeOK
<1>11. AllInFile'
    BY <1>10, InFileStays, OnlyWritersInFile DEF AllInFile
<1> QED
    BY <1>4, <1>5, <1>7, <1>8, <1>9, <1>11

-----------------------------------------------------------------------------
(* The steps that change a file: the writer's own. *)

\* The file of a new writer: nothing but this process's next name refers to it.
LEMMA OpenWriterInv ==
    ASSUME IInv, NEW w \in Workers, NEW k \in Keys, NEW v \in Versions,
           OpenWriter(w, k, v),
           UNCHANGED <<entry, pid, deaths, held>>,
           produced' \in Versions \cup {0},
           key' \in [Workers -> Keys \cup {None}], key'[w] = k,
           \A u \in Workers : u # w => key'[u] = key[u],
           held[w] # None => held[w] \in Inodes /\ inode[held[w]].of = v /\ key[w] = k,
           pc[w] \in {"idle", "reading"}
    PROVE  IInv' /\ Keeps
<1> USE DEF IInv
<1> DEFINE n == <<pid, serial + 1>>
           new(i) == [inode EXCEPT ![i] = [Blank EXCEPT !.key = k, !.of = v]]
<1>1. n \in Names /\ serial + 1 \in 0..MaxSerial
    BY ConstantsAssumption DEF OpenWriter, Names, TypeOK
<1>2. PICK i \in Opened(n) :
          /\ partial' = [partial EXCEPT ![n] = i]
          /\ handle' = [handle EXCEPT ![w] = i]
          /\ SetInodes(new(i))
    BY DEF OpenWriter, NextSerial
<1>3. /\ serial' = serial + 1
      /\ temp' = [temp EXCEPT ![w] = n]
      /\ source' = [source EXCEPT ![w] = v]
      /\ written' = [written EXCEPT ![w] = 0]
      /\ pc' = [pc EXCEPT ![w] = "writing"]
    BY DEF OpenWriter, NextSerial, Goto
<1>4. /\ i \in Inodes
      /\ \A m \in Names : m # n => partial[m] # i
      /\ \A j \in Keys : entry[j] # i
      /\ \A u \in Workers : held[u] # i
    <2>1. CASE partial[n] = None
        <3>1. i \in Inodes \ Referenced
            BY <2>1, <1>2 DEF Opened
        <3> QED
            BY <3>1 DEF Referenced
    <2>2. CASE partial[n] # None
        <3>1. i = partial[n]
            BY <2>2, <1>2 DEF Opened
        <3> QED
            BY <1>1, <2>2, <3>1 DEF Apart, TypeOK
    <2> QED
        BY <2>1, <2>2
<1>5. [Blank EXCEPT !.key = k, !.of = v] \in Contents /\ Len(Blank.body) = 0
    <2>1. <<>> \in Seq(Versions) /\ Len(<<>>) = 0
        BY EmptySeq
    <2> QED
        BY <2>1 DEF Blank, Contents
<1>6. new(i) \in [Inodes -> Contents] /\ \A j \in Inodes : Len(new(i)[j].body) <= EntryLimit
    BY <1>4, <1>5, ConstantsAssumption DEF TypeOK, Blank
<1>7. /\ inode' \in [Inodes -> Contents]
      /\ \A j \in Inodes : Len(inode'[j].body) <= EntryLimit
      /\ \A j \in Keys : entry'[j] \in Inodes => inode'[entry'[j]] = new(i)[entry'[j]]
      /\ \A m \in Names : partial'[m] \in Inodes => inode'[partial'[m]] = new(i)[partial'[m]]
      /\ \A u \in Workers : held'[u] \in Inodes => inode'[held'[u]] = new(i)[held'[u]]
    BY <1>2, <1>6, InodesChange
<1>8. TypeOK'
    BY <1>1, <1>2, <1>3, <1>4, <1>7 DEF TypeOK, States
<1>9. Apart'
    BY <1>1, <1>2, <1>4, ConstantsAssumption DEF Apart, TypeOK
<1>10. \A u \in Workers : Writes(u)' /\ u # w =>
           /\ Writes(u) /\ temp[u] \in Names /\ temp[u] # n
           /\ temp'[u] = temp[u]
           /\ partial'[temp[u]] = partial[temp[u]] /\ partial[temp[u]] \in Inodes
           /\ partial[temp[u]] # i
    BY <1>1, <1>2, <1>3, <1>4 DEF Writes, Named, TypeOK
<1>11. \A u \in Workers : held[u] # None => inode'[held[u]] = inode[held[u]]
    BY <1>4, <1>7 DEF TypeOK
<1>12. Named'
    <2>1. \A u \in Workers : Writes(u)' =>
          /\ temp'[u] \in Names /\ temp'[u][1] = pid' /\ temp'[u][2] <= serial'
          /\ partial'[temp'[u]] # None
          /\ key'[u] \in Keys /\ source'[u] \in Versions
          /\ pc'[u] = "writing" => handle'[u] = partial'[temp'[u]]
        <3> SUFFICES ASSUME NEW u \in Workers, Writes(u)'
                     PROVE  /\ temp'[u] \in Names /\ temp'[u][1] = pid' /\ temp'[u][2] <= serial'
                            /\ partial'[temp'[u]] # None
                            /\ key'[u] \in Keys /\ source'[u] \in Versions
                            /\ pc'[u] = "writing" => handle'[u] = partial'[temp'[u]]
            OBVIOUS
        <3>1. CASE u = w
            BY <3>1, <1>1, <1>2, <1>3, <1>4, ConstantsAssumption DEF TypeOK
        <3>2. CASE u # w
            <4>1. temp[u][2] <= serial /\ temp[u][2] \in Nat /\ serial \in Nat
                BY <3>2, <1>10 DEF Named, Names, TypeOK
            <4> QED
                BY <3>2, <4>1, <1>2, <1>3, <1>10 DEF Named, Writes, TypeOK
        <3> QED
            BY <3>1, <3>2
    <2>2. \A u \in Workers : Writes(u)' /\ u # w => temp'[u] # temp'[w]
        BY <1>3, <1>10 DEF TypeOK
    <2>3. \A u, x \in Workers : Writes(u)' /\ Writes(x)' /\ temp'[u] = temp'[x] => u = x
        BY <2>2, <1>10 DEF Named
    <2> QED
        BY <2>1, <2>3 DEF Named, Writes
<1>13. IdleHoldsNothing'
    BY <1>3 DEF IdleHoldsNothing, TypeOK
<1>14. AllStored'
    BY <1>4, <1>7, <1>11, StoredStays DEF AllStored, TypeOK
<1>15. InFile(w)'
    <2>1. inode'[i] = [Blank EXCEPT !.key = k, !.of = v]
        BY <1>1, <1>2, <1>4, <1>7 DEF TypeOK
    <2>2. inode'[i].body = <<>> /\ inode'[i].key = k /\ inode'[i].of = v
        BY <2>1 DEF Blank
    <2>3. [m \in 1..0 |-> v] = <<>>
        OBVIOUS
    <2>4. partial'[temp'[w]] = i /\ written'[w] = 0 /\ source'[w] = v
        BY <1>1, <1>2, <1>3 DEF TypeOK
    <2>5. Filling(w)'
        BY <2>2, <2>3, <2>4, <1>11, ConstantsAssumption DEF Filling
    <2> QED
        BY <2>5, <1>3 DEF InFile, TypeOK
<1>16. \A u \in Workers : Writes(u)' /\ u # w => Stays(u)
    BY <1>2, <1>3, <1>7, <1>10, <1>11 DEF Stays, TypeOK
<1>17. AllInFile'
    BY <1>15, <1>16, InFileStays, OnlyWritersInFile DEF AllInFile
<1>18. Keeps
    BY <1>4, <1>7, <1>11 DEF Keeps, TypeOK
<1> QED
    BY <1>8, <1>9, <1>12, <1>13, <1>14, <1>17, <1>18

LEMMA StartStoringInv ==
    ASSUME IInv, NEW w \in Workers, NEW k \in Keys, StartStoring(w, k)
    PROVE  IInv' /\ Keeps
<1>1. produced + 1 \in Versions /\ OpenWriter(w, k, produced + 1)
    BY DEF StartStoring
<1>2. held[w] = None
    BY DEF StartStoring, IInv, IdleHoldsNothing
<1> QED
    BY <1>1, <1>2, OpenWriterInv DEF StartStoring, IInv, TypeOK

LEMMA StartRewritingInv ==
    ASSUME IInv, NEW w \in Workers, StartRewriting(w)
    PROVE  IInv' /\ Keeps
<1> USE DEF IInv
<1>1. held[w] \in Inodes /\ key[w] \in Keys
    BY DEF StartRewriting, IdleHoldsNothing, TypeOK
<1>2. Whole(inode[held[w]])
    BY <1>1, ConstantsAssumption DEF AllStored, Stored
<1>3. inode[held[w]].of \in Versions
    BY <1>2 DEF Whole
<1> QED
    BY <1>1, <1>3, OpenWriterInv DEF StartRewriting, TypeOK

\* A chunk goes to the writer's file, which no reader and no other writer has.
LEMMA AppendBodyInv ==
    ASSUME IInv, NEW w \in Workers, AppendBody(w)
    PROVE  IInv' /\ Keeps
<1> USE DEF IInv
<1> DEFINE i == partial[temp[w]]
           file == [inode[i] EXCEPT !.body = Append(@, source[w]), !.synced = FALSE]
           new == [inode EXCEPT ![i] = file]
<1>1. UNCHANGED <<entry, partial, pid, serial, deaths, produced, pc, key, temp, handle, source, held>>
    BY DEF AppendBody, processVars
<1>2. /\ temp[w] \in Names /\ i \in Inodes /\ handle[w] = i
      /\ source[w] \in Versions /\ Filling(w) /\ written[w] \in Nat
    BY DEF AppendBody, Named, Writes, AllInFile, InFile, TypeOK
<1>3. Body(w)[written[w] + 1] = source[w]
    <2>1. Body(w) = [m \in 1..Length[source[w]] |-> source[w]] /\ Len(Body(w)) = Length[source[w]]
        BY BodyIsResponse DEF AppendBody
    <2>2. written[w] + 1 \in 1..Length[source[w]]
        BY <2>1, <1>2, LengthType DEF AppendBody
    <2> QED
        BY <2>1, <2>2
<1>4. SetInodes(new)
    BY <1>2, <1>3 DEF AppendBody
<1>5. /\ file.body = [m \in 1..(written[w] + 1) |-> source[w]]
      /\ file.body \in Seq(Versions) /\ Len(file.body) = written[w] + 1
    BY <1>2, Constant DEF Filling, TypeOK, Contents
<1>6. file \in Contents /\ file.key = key[w] /\ file.of = source[w]
    <2>1. inode[i] \in Contents
        BY <1>2 DEF TypeOK
    <2>2. file.key = inode[i].key /\ file.of = inode[i].of
        BY <2>1 DEF Contents
    <2>3. file \in Contents
        BY <2>1, <1>5 DEF Contents
    <2> QED
        BY <2>2, <2>3, <1>2 DEF Filling
<1>7. written[w] + 1 <= EntryLimit
    BY DEF AppendBody, Fits
<1> HIDE DEF file
<1>8. new \in [Inodes -> Contents] /\ \A j \in Inodes : Len(new[j].body) <= EntryLimit
    BY <1>2, <1>5, <1>6, <1>7 DEF TypeOK
<1>9. /\ inode' \in [Inodes -> Contents]
      /\ \A j \in Inodes : Len(inode'[j].body) <= EntryLimit
      /\ \A k \in Keys : entry'[k] \in Inodes => inode'[entry'[k]] = new[entry'[k]]
      /\ \A n \in Names : partial'[n] \in Inodes => inode'[partial'[n]] = new[partial'[n]]
      /\ \A u \in Workers : held'[u] \in Inodes => inode'[held'[u]] = new[held'[u]]
    BY <1>4, <1>8, InodesChange
<1>10. written' = [written EXCEPT ![w] = @ + 1]
    BY DEF AppendBody
<1>11. TypeOK'
    BY <1>1, <1>9, <1>10 DEF TypeOK
<1>12. Apart' /\ Named' /\ IdleHoldsNothing'
    BY <1>1 DEF Apart, Named, IdleHoldsNothing, Writes
<1>13. /\ \A k \in Keys : entry[k] # i
       /\ \A u \in Workers : held[u] # i
       /\ \A u \in Workers : Writes(u) /\ u # w => temp[u] \in Names /\ partial[temp[u]] # i
    BY <1>2, ConstantsAssumption DEF Apart, Named, AppendBody, Writes
<1>14. \A u \in Workers : held[u] # None => inode'[held[u]] = inode[held[u]]
    BY <1>1, <1>9, <1>13 DEF TypeOK
<1>15. AllStored'
    <2>1. \A k \in Keys : entry[k] # None => inode'[entry[k]] = inode[entry[k]]
        BY <1>1, <1>9, <1>13 DEF TypeOK
    <2> QED
        BY <2>1, <1>1, <1>14, StoredStays
<1>16. InFile(w)'
    <2>1. inode'[partial'[temp'[w]]] = file
        BY <1>1, <1>2, <1>9 DEF TypeOK
    <2>2. Filling(w)'
        BY <2>1, <1>1, <1>2, <1>5, <1>6, <1>7, <1>10, <1>14 DEF Filling, TypeOK
    <2> QED
        BY <2>2, <1>1 DEF InFile, AppendBody
<1>17. \A u \in Workers : Writes(u)' /\ u # w => Stays(u)
    <2> SUFFICES ASSUME NEW u \in Workers, Writes(u)', u # w
                 PROVE  Stays(u)
        OBVIOUS
    <2>1. Writes(u) /\ temp[u] \in Names /\ partial[temp[u]] \in Inodes
        BY <1>1 DEF Writes, Named, TypeOK
    <2>2. inode'[partial[temp[u]]] = inode[partial[temp[u]]]
        BY <2>1, <1>1, <1>9, <1>13
    <2> QED
        BY <2>2, <1>1, <1>10, <1>14 DEF Stays, TypeOK
<1>18. AllInFile'
    BY <1>16, <1>17, InFileStays, OnlyWritersInFile DEF AllInFile
<1>19. Keeps
    <2>1. \A k \in Keys : entry[k] # None => inode'[entry[k]] = inode[entry[k]]
        BY <1>1, <1>9, <1>13 DEF TypeOK
    <2> QED
        BY <2>1, <1>14 DEF Keeps
<1> QED
    BY <1>11, <1>12, <1>15, <1>18, <1>19

\* -commit finds the whole response in the file and records its length; the fsync may
\* do its work or fail.
LEMMA SealInv ==
    ASSUME IInv, NEW w \in Workers, Seal(w)
    PROVE  IInv' /\ Keeps
<1> USE DEF IInv
<1> DEFINE i == partial[temp[w]]
           sealed == [inode[i] EXCEPT !.recorded = written[w]]
<1>1. UNCHANGED <<entry, partial, pid, serial, deaths, produced, key, temp, source, written, held>>
    BY DEF Seal, processVars
<1>2. /\ temp[w] \in Names /\ i \in Inodes /\ handle[w] = i
      /\ source[w] \in Versions /\ Filling(w) /\ written[w] \in Nat
    BY DEF Seal, Named, Writes, AllInFile, InFile, TypeOK
<1>3. written[w] = Length[source[w]]
    BY BodyIsResponse DEF Seal
<1>4. PICK ok \in BOOLEAN : SetInodes([inode EXCEPT ![i] = [sealed EXCEPT !.synced = ok]])
    BY <1>2 DEF Seal, Synced
<1> DEFINE file == [sealed EXCEPT !.synced = ok]
           new == [inode EXCEPT ![i] = file]
<1>5. Len(inode[i].body) = written[w]
    BY <1>2, Constant DEF Filling
<1>6. /\ file \in Contents /\ Stored(file, key[w]) /\ file.of = source[w]
      /\ Len(file.body) <= EntryLimit
    <2>1. inode[i] \in Contents /\ Len(inode[i].body) <= EntryLimit
        BY <1>2 DEF TypeOK
    <2>2. /\ file \in Contents /\ file.recorded = written[w]
          /\ file.key = inode[i].key /\ file.of = inode[i].of /\ file.body = inode[i].body
        BY <1>2, <2>1 DEF Contents
    <2> HIDE DEF file
    <2> QED
        BY <1>2, <1>3, <1>5, <2>1, <2>2 DEF Filling, Stored, Whole
<1>s. SetInodes(new)
    BY <1>4
<1> HIDE DEF file
<1>7. new \in [Inodes -> Contents] /\ \A j \in Inodes : Len(new[j].body) <= EntryLimit
    BY <1>2, <1>6 DEF TypeOK
<1>8. /\ inode' \in [Inodes -> Contents]
      /\ \A j \in Inodes : Len(inode'[j].body) <= EntryLimit
      /\ \A k \in Keys : entry'[k] \in Inodes => inode'[entry'[k]] = new[entry'[k]]
      /\ \A n \in Names : partial'[n] \in Inodes => inode'[partial'[n]] = new[partial'[n]]
      /\ \A u \in Workers : held'[u] \in Inodes => inode'[held'[u]] = new[held'[u]]
    BY <1>s, <1>7, InodesChange
<1>9. /\ pc' = [pc EXCEPT ![w] = "renaming"]
      /\ handle' = [handle EXCEPT ![w] = None]
    BY DEF Seal, Goto
<1>10. TypeOK'
    BY <1>1, <1>8, <1>9 DEF TypeOK, States
<1>11. Apart'
    BY <1>1 DEF Apart
<1>12. Named' /\ IdleHoldsNothing'
    BY <1>1, <1>9 DEF Seal, Named, IdleHoldsNothing, Writes, TypeOK
<1>13. /\ \A k \in Keys : entry[k] # i
       /\ \A u \in Workers : held[u] # i
       /\ \A u \in Workers : Writes(u) /\ u # w => temp[u] \in Names /\ partial[temp[u]] # i
    BY <1>2, ConstantsAssumption DEF Apart, Named, Seal, Writes
<1>14. ASSUME NEW u \in Workers, held[u] # None
       PROVE  inode'[held[u]] = inode[held[u]]
    <2>1. held[u] \in Inodes /\ held[u] # i /\ held'[u] = held[u]
        BY <1>1, <1>13, <1>14 DEF TypeOK
    <2>2. inode'[held[u]] = new[held[u]]
        BY <2>1, <1>8
    <2> QED
        BY <2>1, <2>2 DEF TypeOK
<1>k. ASSUME NEW k \in Keys, entry[k] # None
      PROVE  inode'[entry[k]] = inode[entry[k]]
    <2>1. entry[k] \in Inodes /\ entry[k] # i /\ entry'[k] = entry[k]
        BY <1>1, <1>13, <1>k DEF TypeOK
    <2>2. inode'[entry[k]] = new[entry[k]]
        BY <2>1, <1>8
    <2> QED
        BY <2>1, <2>2 DEF TypeOK
<1>15. AllStored'
    BY <1>1, <1>k, <1>14, StoredStays
<1>16. InFile(w)'
    <2>1. inode'[partial'[temp'[w]]] = file
        BY <1>1, <1>2, <1>8 DEF TypeOK
    <2> QED
        BY <2>1, <1>1, <1>6, <1>9 DEF InFile, TypeOK
<1>17. \A u \in Workers : Writes(u)' /\ u # w => Stays(u)
    <2> SUFFICES ASSUME NEW u \in Workers, Writes(u)', u # w
                 PROVE  Stays(u)
        OBVIOUS
    <2>1. Writes(u) /\ temp[u] \in Names /\ partial[temp[u]] \in Inodes
        BY <1>1, <1>9 DEF Writes, Named, TypeOK
    <2>2. inode'[partial[temp[u]]] = inode[partial[temp[u]]]
        BY <2>1, <1>1, <1>8, <1>13
    <2> QED
        BY <2>2, <1>1, <1>9, <1>14 DEF Stays, TypeOK
<1>18. AllInFile'
    BY <1>16, <1>17, InFileStays, OnlyWritersInFile DEF AllInFile
<1>19. Keeps
    BY <1>k, <1>14 DEF Keeps
<1> QED
    BY <1>10, <1>11, <1>12, <1>15, <1>18, <1>19

-----------------------------------------------------------------------------
(* Deaths. *)

\* A power failure shortens files that no fsync covers; the others it leaves.
LEMMA FailureType ==
    ASSUME IInv, NEW kept \in [Unsynced -> 0..EntryLimit]
    PROVE  /\ AfterPowerFailure(kept) \in [Inodes -> Contents]
           /\ \A i \in Inodes : Len(AfterPowerFailure(kept)[i].body) <= EntryLimit
           /\ \A i \in Inodes : inode[i].synced => AfterPowerFailure(kept)[i] = inode[i]
<1> DEFINE short(i) == [inode[i] EXCEPT !.body = SubSeq(@, 1, kept[i])]
<1>1. \A i \in Inodes : inode[i] \in Contents /\ Len(inode[i].body) <= EntryLimit
    BY DEF IInv, TypeOK
<1>2. ASSUME NEW i \in Unsynced, kept[i] < Len(inode[i].body)
      PROVE  short(i) \in Contents /\ Len(short(i).body) <= EntryLimit
    <2>1. i \in Inodes /\ kept[i] \in 0..EntryLimit /\ EntryLimit \in Nat
        BY ConstantsAssumption DEF Unsynced
    <2>2. inode[i] \in Contents /\ inode[i].body \in Seq(Versions)
        BY <1>1, <2>1 DEF Contents
    <2>3. \A m \in 1..kept[i] : inode[i].body[m] \in Versions
        BY <2>1, <2>2, <1>2, ElementOfSeq, LenProperties
    <2>4. SubSeq(inode[i].body, 1, kept[i]) \in Seq(Versions)
          /\ Len(SubSeq(inode[i].body, 1, kept[i])) <= EntryLimit
        BY <2>1, <2>3, SubSeqProperties
    <2> QED
        BY <2>2, <2>4 DEF Contents
<1>3. \A i \in Inodes :
          AfterPowerFailure(kept)[i] = IF i \in Unsynced /\ kept[i] < Len(inode[i].body)
                                       THEN short(i) ELSE inode[i]
    BY DEF AfterPowerFailure
<1>4. AfterPowerFailure(kept) = [i \in Inodes |-> AfterPowerFailure(kept)[i]]
    BY DEF AfterPowerFailure
<1> HIDE DEF short
<1> QED
    BY <1>1, <1>2, <1>3, <1>4 DEF Unsynced

LEMMA DieInv ==
    ASSUME IInv, Die
    PROVE  IInv' /\ Keeps
<1> USE DEF IInv
<1>1. PICK new \in [Inodes -> Contents] :
          /\ SetInodes(new)
          /\ \A i \in Inodes : Len(new[i].body) <= EntryLimit
          /\ \A k \in Keys : entry[k] # None => new[entry[k]] = inode[entry[k]]
    <2>1. CASE SetInodes(inode)
        BY <2>1 DEF TypeOK
    <2>2. CASE AllSynced
               /\ \E kept \in [Unsynced -> 0..EntryLimit] : SetInodes(AfterPowerFailure(kept))
        <3>1. PICK kept \in [Unsynced -> 0..EntryLimit] : SetInodes(AfterPowerFailure(kept))
            BY <2>2
        <3>2. \A k \in Keys : entry[k] # None =>
                  entry[k] \in Inodes /\ inode[entry[k]].synced
            BY <2>2 DEF AllSynced, TypeOK
        <3> QED
            BY <3>1, <3>2, FailureType
    <2> QED
        BY <2>1, <2>2 DEF Die
<1>2. /\ inode' \in [Inodes -> Contents]
      /\ \A j \in Inodes : Len(inode'[j].body) <= EntryLimit
      /\ \A k \in Keys : entry'[k] \in Inodes => inode'[entry'[k]] = new[entry'[k]]
    BY <1>1, InodesChange
<1>3. UNCHANGED <<entry, partial, produced>>
    BY DEF Die
<1>4. TypeOK'
    BY <1>2, <1>3, ConstantsAssumption DEF Die, TypeOK, States
<1>5. \A w \in Workers : pc'[w] = "idle" /\ held'[w] = None
    BY DEF Die
<1>6. Apart' /\ Named' /\ IdleHoldsNothing' /\ AllInFile'
    BY <1>3, <1>5 DEF Apart, Named, Writes, IdleHoldsNothing, AllInFile, InFile
<1>7. ASSUME NEW k \in Keys, entry[k] # None
      PROVE  inode'[entry[k]] = inode[entry[k]]
    <2>1. entry[k] \in Inodes
        BY <1>7 DEF TypeOK
    <2>2. new[entry[k]] = inode[entry[k]]
        BY <1>1, <1>7
    <2> QED
        BY <1>2, <1>3, <2>1, <2>2
<1>8. AllStored'
    BY <1>3, <1>5, <1>7, StoredStays
<1>9. Keeps
    BY <1>5, <1>7 DEF Keeps
<1> QED
    BY <1>4, <1>6, <1>8, <1>9

-----------------------------------------------------------------------------

LEMMA NextInv ==
    ASSUME IInv, [Next]_vars
    PROVE  IInv'
<1>1. ASSUME NEW w \in Workers, NEW k \in Keys, StartStoring(w, k)
      PROVE  IInv'
    BY <1>1, StartStoringInv
<1>2. ASSUME NEW w \in Workers, NEW k \in Keys, Read(w, k)
      PROVE  IInv'
    BY <1>2, ReadInv
<1>3. ASSUME NEW w \in Workers,
             StartRewriting(w) \/ AppendBody(w) \/ Abandon(w) \/ Seal(w) \/ Rename(w) \/ Finish(w)
      PROVE  IInv'
    BY <1>3, StartRewritingInv, AppendBodyInv, AbandonInv, SealInv, RenameInv, FinishInv
<1>4. ASSUME NEW k \in Keys, Unlink(k)
      PROVE  IInv'
    BY <1>4, UnlinkInv
<1>5. CASE SweepPartials
    BY <1>5, SweepPartialsInv
<1>6. CASE Die
    BY <1>6, DieInv
<1>7. CASE UNCHANGED vars
    BY <1>7 DEF vars, IInv, TypeOK, Apart, Named, Writes, IdleHoldsNothing,
                AllStored, AllInFile, InFile, Filling
<1> QED
    BY <1>1, <1>2, <1>3, <1>4, <1>5, <1>6, <1>7 DEF Next

LEMMA Invariance == Spec => []IInv
<1>1. Init => IInv
    BY InitInv
<1>2. IInv /\ [Next]_vars => IInv'
    BY NextInv
<1> QED
    BY <1>1, <1>2, PTL DEF Spec

\* The types, and that no file of the cache grows beyond kCacheEntryLimit.
THEOREM TypeCorrect == Spec => []TypeOK
BY Invariance, PTL DEF IInv

\* -initForKey:metadata: gives each writer a file that nobody else has, whatever
\* processes with its number left behind; it has it to itself until the rename.
THEOREM WritersStayApart == Spec => []WritersApart
<1>1. ASSUME IInv
      PROVE  WritersApart
    <2>1. \A w \in Workers : Writes(w) =>
              /\ partial[temp[w]] # None
              /\ \A u \in Workers : held[u] # partial[temp[w]]
              /\ \A k \in Keys : entry[k] # partial[temp[w]]
              /\ pc[w] = "writing" => handle[w] = partial[temp[w]]
        BY <1>1 DEF IInv, Apart, Named
    <2>2. \A w, u \in Workers : Writes(w) /\ Writes(u) /\ u # w => temp[u] # temp[w]
        BY <1>1 DEF IInv, Named
    <2> QED
        BY <2>1, <2>2 DEF WritersApart, Writes
<1> QED
    BY <1>1, Invariance, PTL

\* readCacheEntry is only given whole responses to the key, after any crash or power
\* failure, although it checks no more than lengths.
THEOREM PublishedStaysWhole == Spec => []PublishedWhole
<1>1. IInv => PublishedWhole
    BY DEF IInv, PublishedWhole, AllStored, Stored
<1> QED
    BY <1>1, Invariance, PTL

-----------------------------------------------------------------------------
(* The refinement. *)

\* Under the invariant nothing is torn.
LEMMA VersionIs ==
    ASSUME IInv
    PROVE  /\ \A k \in Keys : store[k] = IF entry[k] = None THEN 0 ELSE inode[entry[k]].of
           /\ \A w \in Workers : got[w] = IF held[w] = None THEN 0 ELSE inode[held[w]].of
BY DEF IInv, AllStored, Stored, store, got, Version

LEMMA VersionIsNext ==
    ASSUME IInv'
    PROVE  /\ \A k \in Keys : store'[k] = IF entry'[k] = None THEN 0 ELSE inode'[entry'[k]].of
           /\ \A w \in Workers : got'[w] = IF held'[w] = None THEN 0 ELSE inode'[held'[w]].of
BY DEF IInv, AllStored, Stored, store, got, Version

\* Maps that differ in one place.
LEMMA StoreChanges ==
    ASSUME NEW k \in Keys, NEW v, store'[k] = v,
           \A j \in Keys : j # k => store'[j] = store[j]
    PROVE  store' = [store EXCEPT ![k] = v]
<1>1. store = [j \in Keys |-> store[j]] /\ store' = [j \in Keys |-> store'[j]]
    BY DEF store
<1> QED
    BY <1>1

LEMMA GotChanges ==
    ASSUME NEW w \in Workers, NEW v, got'[w] = v,
           \A u \in Workers : u # w => got'[u] = got[u]
    PROVE  got' = [got EXCEPT ![w] = v]
<1>1. got = [u \in Workers |-> got[u]] /\ got' = [u \in Workers |-> got'[u]]
    BY DEF got
<1> QED
    BY <1>1

\* What a step leaves alone is the same response after it.
LEMMA StoreStays ==
    ASSUME IInv, IInv', Keeps, UNCHANGED entry
    PROVE  UNCHANGED store
<1>1. \A k \in Keys : store'[k] = store[k]
    BY VersionIs, VersionIsNext DEF Keeps
<1>2. store = [k \in Keys |-> store[k]] /\ store' = [k \in Keys |-> store'[k]]
    BY DEF store
<1> QED
    BY <1>1, <1>2

LEMMA GotStays ==
    ASSUME IInv, IInv', Keeps, UNCHANGED held
    PROVE  UNCHANGED got
<1>1. \A w \in Workers : got'[w] = got[w]
    BY VersionIs, VersionIsNext DEF Keeps
<1>2. got = [w \in Workers |-> got[w]] /\ got' = [w \in Workers |-> got'[w]]
    BY DEF got
<1> QED
    BY <1>1, <1>2

\* The commit of -commit's rename publishes the response that was sealed.
LEMMA RenamePublishes ==
    ASSUME IInv, IInv', NEW w \in Workers, Rename(w)
    PROVE  \E k \in Keys, v \in Versions : Abstract!Publish(k, v)
<1> DEFINE i == partial[temp[w]]
           v == inode'[i].of
<1>1. temp[w] \in Names /\ key[w] \in Keys /\ i \in Inodes
    BY DEF Rename, IInv, Named, Writes, TypeOK
<1>2. entry' = [entry EXCEPT ![key[w]] = i]
    BY <1>1, ConstantsAssumption DEF Rename
<1>3. Keeps /\ UNCHANGED held
    BY NamesKeep DEF Rename
<1>4. entry'[key[w]] = i /\ i # None
    BY <1>1, <1>2, ConstantsAssumption DEF IInv, TypeOK
<1>5. v \in Versions
    BY <1>1, <1>4 DEF IInv, AllStored, Stored, Whole
<1>6. store' = [store EXCEPT ![key[w]] = v]
    <2>1. \A j \in Keys : j # key[w] => entry'[j] = entry[j]
        BY <1>1, <1>2 DEF IInv, TypeOK
    <2>2. \A j \in Keys : j # key[w] => store'[j] = store[j]
        BY <2>1, <1>3, VersionIs, VersionIsNext DEF Keeps
    <2>3. store'[key[w]] = v
        BY <1>1, <1>4, VersionIsNext
    <2> QED
        BY <1>1, <2>2, <2>3, StoreChanges
<1>7. UNCHANGED got
    BY <1>3, GotStays
<1> QED
    BY <1>1, <1>5, <1>6, <1>7 DEF Abstract!Publish

LEMMA ReadGets ==
    ASSUME IInv, IInv', NEW w \in Workers, NEW k \in Keys, Read(w, k)
    PROVE  Abstract!Get(w, k)
<1>1. UNCHANGED <<inode, entry>> /\ held' = [held EXCEPT ![w] = entry[k]]
    BY DEF Read
<1>2. held[w] = None /\ entry[k] # None
    BY DEF Read, IInv, IdleHoldsNothing
<1>3. inode[entry[k]].of \in Versions
    BY <1>2 DEF IInv, AllStored, Stored, Whole
<1>4. store[k] # 0 /\ got[w] = 0
    BY <1>2, <1>3, VersionIs, LengthType
<1>5. got' = [got EXCEPT ![w] = store[k]]
    <2>1. held'[w] = entry[k] /\ \A u \in Workers : u # w => held'[u] = held[u]
        BY <1>1 DEF IInv, TypeOK
    <2>2. \A u \in Workers : u # w => got'[u] = got[u]
        BY <2>1, <1>1, VersionIs, VersionIsNext
    <2>3. got'[w] = store[k]
        BY <2>1, <1>1, <1>2, VersionIs, VersionIsNext
    <2> QED
        BY <2>2, <2>3, GotChanges
<1>6. UNCHANGED store
    BY <1>1 DEF store, Version
<1> QED
    BY <1>4, <1>5, <1>6 DEF Abstract!Get

LEMMA ForgetReleases ==
    ASSUME IInv, IInv', NEW w \in Workers, Keeps, Forget(w), UNCHANGED entry
    PROVE  Abstract!Release(w)
<1>1. held' = [held EXCEPT ![w] = None]
    BY DEF Forget
<1>2. got' = [got EXCEPT ![w] = 0]
    <2>1. held'[w] = None /\ \A u \in Workers : u # w => held'[u] = held[u]
        BY <1>1 DEF IInv, TypeOK
    <2>2. \A u \in Workers : u # w => got'[u] = got[u]
        BY <2>1, VersionIs, VersionIsNext DEF Keeps
    <2>3. got'[w] = 0
        BY <2>1, VersionIsNext
    <2> QED
        BY <2>2, <2>3, GotChanges
<1> QED
    BY <1>2, StoreStays DEF Abstract!Release

LEMMA UnlinkWithdraws ==
    ASSUME IInv, IInv', NEW k \in Keys, Unlink(k)
    PROVE  Abstract!Withdraw(k)
<1>1. Keeps /\ UNCHANGED held /\ entry' = [entry EXCEPT ![k] = None]
    BY NamesKeep DEF Unlink
<1>2. store' = [store EXCEPT ![k] = 0]
    <2>1. entry'[k] = None /\ \A j \in Keys : j # k => entry'[j] = entry[j]
        BY <1>1 DEF IInv, TypeOK
    <2>2. \A j \in Keys : j # k => store'[j] = store[j]
        BY <2>1, <1>1, VersionIs, VersionIsNext DEF Keeps
    <2>3. store'[k] = 0
        BY <2>1, VersionIsNext
    <2> QED
        BY <2>2, <2>3, StoreChanges
<1> QED
    BY <1>1, <1>2, GotStays DEF Abstract!Withdraw

LEMMA DieRestarts ==
    ASSUME IInv, IInv', Die
    PROVE  Abstract!Restart
<1>1. Keeps /\ UNCHANGED entry /\ \A w \in Workers : held'[w] = None
    BY DieInv DEF Die
<1>2. got' = [w \in Workers |-> 0]
    BY <1>1 DEF got, Version
<1> QED
    BY <1>1, <1>2, StoreStays DEF Abstract!Restart

LEMMA StepImplements ==
    ASSUME IInv, IInv', [Next]_vars
    PROVE  Abstract!Next \/ UNCHANGED <<store, got>>
<1>1. ASSUME NEW w \in Workers,
             StartRewriting(w) \/ AppendBody(w) \/ Seal(w) \/ \E k \in Keys : StartStoring(w, k)
      PROVE  UNCHANGED <<store, got>>
    <2>1. Keeps
        BY <1>1, StartRewritingInv, AppendBodyInv, SealInv, StartStoringInv
    <2>2. UNCHANGED <<entry, held>>
        BY <1>1 DEF StartRewriting, AppendBody, Seal, StartStoring
    <2> QED
        BY <2>1, <2>2, StoreStays, GotStays
<1>2. ASSUME NEW w \in Workers, NEW k \in Keys, Read(w, k)
      PROVE  Abstract!Next
    BY <1>2, ReadGets DEF Abstract!Next
<1>3. ASSUME NEW w \in Workers, Abandon(w) \/ Finish(w)
      PROVE  Abstract!Next
    <2>1. Keeps /\ Forget(w) /\ UNCHANGED entry
        BY <1>3, NamesKeep DEF Abandon, Finish
    <2> QED
        BY <2>1, ForgetReleases DEF Abstract!Next
<1>4. ASSUME NEW w \in Workers, Rename(w)
      PROVE  Abstract!Next
    BY <1>4, RenamePublishes DEF Abstract!Next
<1>5. ASSUME NEW k \in Keys, Unlink(k)
      PROVE  Abstract!Next
    BY <1>5, UnlinkWithdraws DEF Abstract!Next
<1>6. CASE SweepPartials
    <2>1. Keeps /\ UNCHANGED <<entry, held>>
        BY <1>6, NamesKeep DEF SweepPartials
    <2> QED
        BY <2>1, StoreStays, GotStays
<1>7. CASE Die
    BY <1>7, DieRestarts DEF Abstract!Next
<1>8. CASE UNCHANGED vars
    BY <1>8 DEF vars, store, got, Version
<1> QED
    BY <1>1, <1>2, <1>3, <1>4, <1>5, <1>6, <1>7, <1>8 DEF Next

LEMMA InitImplements ==
    ASSUME Init
    PROVE  Abstract!Init
BY DEF Init, store, got, Version, Abstract!Init

\* Whatever readers, writers, sweeps and deaths do, the files implement a map from keys
\* to whole responses in which each reader keeps the one it got.
THEOREM FilesImplementMap == Spec => ImplementsAtomicCache
<1>1. Init => Abstract!Init
    BY InitImplements
<1>2. IInv /\ IInv' /\ [Next]_vars => [Abstract!Next]_<<store, got>>
    BY StepImplements
<1> QED
    BY <1>1, <1>2, Invariance, PTL DEF Spec, ImplementsAtomicCache, Abstract!Spec
=============================================================================
