------------------------ MODULE ResponseCacheProofs ------------------------
(***************************************************************************)
(* Theorems about ResponseCache.tla for every number of callers, requests  *)
(* and processes, whichever of them share a key.                           *)
(*                                                                         *)
(* The argument is about who leads to a file.  A path leads to a file of   *)
(* its own; a caller writes to a file of its key; and while no two         *)
(* processes store a key at once, its temporary file is that of the one    *)
(* caller that stores it.                                                  *)
(*                                                                         *)
(* The bill is a sum over the callers that store.  The fold it is written  *)
(* with takes them in an order of its own, so what is needed of sums over  *)
(* finite sets is proved first, by the least size of a set that would not  *)
(* have it.                                                                *)
(***************************************************************************)
EXTENDS ResponseCache, FiniteSetTheorems, SequenceTheorems,
        WellFoundedInduction, TLAPS

USE CacheAssumption

\* No two paths lead to one file.
PathsApart ==
    \A k, l \in Keys :
        /\ k # l /\ entry[k] # NoFile => entry[k] # entry[l]
        /\ k # l /\ temp[k] # NoFile => temp[k] # temp[l]
        /\ entry[k] # NoFile => entry[k] # temp[l]

\* The file that a caller writes to is on the paths of its own key, if on any;
\* it is an entry already only if another process renamed it away.
OpenFilesOfKey ==
    \A c \in Callers :
        pc[c] = "opened" =>
            /\ fd[c] \in Inodes
            /\ \A l \in Keys :
                  /\ entry[l] = fd[c] => l = KeyOf(c) /\ l \in raced
                  /\ temp[l] = fd[c] => l = KeyOf(c)

\* What is stored is an answer to the request.
StoringAnswer ==
    \A c \in Storing : response[c] \in Answers /\ response[c].to = KeyOf(c)

\* Two callers that store one key race.
RacesSeen ==
    \A c, d \in Storing : c # d /\ KeyOf(c) = KeyOf(d) => KeyOf(c) \in raced

\* Without a race the temporary file is the caller's own, empty until it is
\* written and whole from then on.
StoredAlone ==
    \A c \in Storing :
        KeyOf(c) \notin raced =>
            /\ temp[KeyOf(c)] # NoFile
            /\ pc[c] = "opened" =>
                  temp[KeyOf(c)] = fd[c] /\ blocks[fd[c]] = <<>>
            /\ pc[c] = "written" => Whole(blocks[temp[KeyOf(c)]])

EntriesWhole == \A k \in Keys : Torn(k) => k \in raced

AnswersTo(content, k) == \A i \in DOMAIN content : content[i].to = k

\* Whole or not, a file on the path of a key has blocks of its answers only.
FilesOfKey ==
    \A k \in Keys :
        /\ entry[k] # NoFile => AnswersTo(blocks[entry[k]], k)
        /\ temp[k] # NoFile => AnswersTo(blocks[temp[k]], k)

\* An answer is lost only to a kill, to the disk or to a race.
LostExplained == lost > 0 => kills + faults > 0 \/ raced # {}

\* The variables whose shape TypeOK leaves open.
FilesTyped ==
    /\ blocks \in [Inodes -> Seq(Answers)]
    /\ fd \in [Callers -> Inodes \cup {NoFile}]
    /\ kills \in Nat
    /\ faults \in Nat

IInv ==
    /\ TypeOK
    /\ FilesTyped
    /\ ServedWhole
    /\ PathsApart
    /\ OpenFilesOfKey
    /\ StoringAnswer
    /\ RacesSeen
    /\ StoredAlone
    /\ EntriesWhole
    /\ FilesOfKey
    /\ LostExplained

-----------------------------------------------------------------------------
\* The keys, and the files, are finitely many.
LEMMA KeysFinite ==
  /\ IsFiniteSet(Keys)
  /\ Cardinality(Keys) \in Nat /\ Cardinality(Callers) \in Nat
<1> DEFINE f == [x \in Callers \X Requests |-> Asked(x[1], x[2])]
<1>1. IsFiniteSet(Callers \X Requests)
  BY FS_Product
<1>2. f \in Surjection(Callers \X Requests, Keys)
  <2>1. f \in [Callers \X Requests -> Keys]
    BY DEF Keys
  <2>2. ASSUME NEW k \in Keys
        PROVE  \E x \in Callers \X Requests : f[x] = k
    <3>1. PICK c \in Callers, r \in Requests : k = Asked(c, r)
      BY DEF Keys
    <3>2. <<c, r>> \in Callers \X Requests /\ f[<<c, r>>] = k
      BY <3>1
    <3> QED
      BY <3>2
  <2> HIDE DEF f
  <2> QED
    BY <2>1, <2>2 DEF Surjection
<1>3. IsFiniteSet(Keys)
  <2> HIDE DEF f
  <2> QED
    BY <1>1, <1>2, FS_Surjection
<1> QED
  BY <1>3, FS_CardinalityType

\* While a caller has no file open, there is one that nothing leads to.
LEMMA FreshExists ==
  ASSUME IInv, NEW c \in Callers, fd[c] = NoFile
  PROVE  /\ FreshInode \in Inodes
         /\ \A k \in Keys : FreshInode # entry[k] /\ FreshInode # temp[k]
         /\ \A d \in Callers : FreshInode # fd[d]
<1> DEFINE K == Cardinality(Keys)
           C == Cardinality(Callers)
           E == {entry[k] : k \in Keys}
           T == {temp[k] : k \in Keys}
           F == {fd[d] : d \in Callers}
           Used == (E \cup T \cup F) \ {NoFile}
<1>1. K \in Nat /\ C \in Nat
  BY KeysFinite
<1>2. IsFiniteSet(E) /\ Cardinality(E) <= K
  <2>1. entry \in Surjection(Keys, E)
    BY DEF IInv, TypeOK, Surjection
  <2> HIDE DEF E
  <2> QED
    BY <2>1, KeysFinite, FS_Surjection
<1>3. IsFiniteSet(T) /\ Cardinality(T) <= K
  <2>1. temp \in Surjection(Keys, T)
    BY DEF IInv, TypeOK, Surjection
  <2> HIDE DEF T
  <2> QED
    BY <2>1, KeysFinite, FS_Surjection
<1>4. IsFiniteSet(F) /\ Cardinality(F) <= C
  <2>1. fd \in Surjection(Callers, F)
    BY DEF IInv, FilesTyped, Surjection
  <2> HIDE DEF F
  <2> QED
    BY <2>1, KeysFinite, FS_Surjection
<1>5. /\ IsFiniteSet(E \cup T \cup F)
      /\ Cardinality(E \cup T \cup F) <= K + K + C
  <2>1. /\ Cardinality(E) \in Nat /\ Cardinality(T) \in Nat
        /\ Cardinality(F) \in Nat
    BY <1>2, <1>3, <1>4, FS_CardinalityType
  <2>2. /\ IsFiniteSet(E \cup T) /\ Cardinality(E \cup T) <= K + K
    <3>1. IsFiniteSet(E \cap T)
      BY <1>2, FS_Intersection
    <3>2. Cardinality(E \cap T) \in Nat
      BY <3>1, FS_CardinalityType
    <3> HIDE DEF E, T, K
    <3>3. /\ IsFiniteSet(E \cup T)
          /\ Cardinality(E \cup T) =
                Cardinality(E) + Cardinality(T) - Cardinality(E \cap T)
      BY ONLY <1>2, <1>3, FS_Union
    <3> QED
      BY ONLY <1>1, <1>2, <1>3, <2>1, <3>2, <3>3
  <2>3. Cardinality(E \cup T) \in Nat
    BY <2>2, FS_CardinalityType
  <2>4. IsFiniteSet((E \cup T) \cap F)
    BY <2>2, FS_Intersection
  <2>5. Cardinality((E \cup T) \cap F) \in Nat
    BY <2>4, FS_CardinalityType
  <2> HIDE DEF E, T, F
  <2>6. /\ IsFiniteSet(E \cup T \cup F)
        /\ Cardinality(E \cup T \cup F) =
              Cardinality(E \cup T) + Cardinality(F)
              - Cardinality((E \cup T) \cap F)
    BY <1>4, <2>2, FS_Union
  <2> HIDE DEF K, C
  <2> QED
    BY <1>1, <1>4, <2>1, <2>2, <2>3, <2>5, <2>6
<1>6. NoFile \in E \cup T \cup F
  OBVIOUS
<1>7. IsFiniteSet(Used) /\ Cardinality(Used) < K + K + C
  <2>1. IsFiniteSet(Used)
        /\ Cardinality(Used) = Cardinality(E \cup T \cup F) - 1
    <3> HIDE DEF E, T, F
    <3> QED
      BY <1>5, <1>6, FS_RemoveElement
  <2>2. Cardinality(E \cup T \cup F) \in Nat
    BY <1>5, FS_CardinalityType
  <2> HIDE DEF E, T, F, K, C, Used
  <2> QED
    BY <1>1, <1>5, <2>1, <2>2
<1>8. IsFiniteSet(Inodes) /\ Cardinality(Inodes) = K + K + C
  <2>1. 2 * K + C \in Nat /\ 2 * K + C = K + K + C
    BY <1>1
  <2> HIDE DEF K, C
  <2>2. /\ IsFiniteSet(1 .. 2 * K + C)
        /\ Cardinality(1 .. 2 * K + C) = 2 * K + C
    BY <2>1, FS_Interval
  <2> QED
    BY <2>1, <2>2 DEF Inodes, K, C
<1>9. \E i \in Inodes : i \notin Used
  <2> SUFFICES ASSUME Inodes \subseteq Used PROVE FALSE
    OBVIOUS
  <2>1. Cardinality(Inodes) <= Cardinality(Used)
    BY <1>7, FS_Subset
  <2>2. Cardinality(Used) \in Nat
    BY <1>7, FS_CardinalityType
  <2> HIDE DEF E, T, F, K, C, Used
  <2> QED
    BY <1>1, <1>7, <1>8, <2>1, <2>2
<1>10. \E i \in Inodes :
          /\ \A k \in Keys : i # entry[k] /\ i # temp[k]
          /\ \A d \in Callers : i # fd[d]
  BY <1>9
<1> QED
  BY <1>10 DEF FreshInode

\* The greater of two numbers.
LEMMA MaxOfTwo ==
  ASSUME NEW m \in Nat, NEW n \in Nat
  PROVE  Max({m, n}) = IF m >= n THEN m ELSE n
<1>1. \A x \in {m, n} : (\A y \in {m, n} : x >= y)
         => x = IF m >= n THEN m ELSE n
  OBVIOUS
<1>2. \E x \in {m, n} : \A y \in {m, n} : x >= y
  OBVIOUS
<1> QED
  BY <1>1, <1>2 DEF Max

\* What an answer looks like once it is a file.
LEMMA WholeContent ==
  ASSUME NEW content, Whole(content)
  PROVE  /\ Decode(content) \in Answers
         /\ 1 \in DOMAIN content
         /\ Decode(content) = content[1]
<1>1. PICK a \in Answers : content = Written(a)
  BY DEF Whole
<1>2. a.size \in Nat \ {0}
  BY DEF Answers
<1>3. content = [i \in 1 .. a.size |-> a]
  BY <1>1 DEF Written
<1>4. 1 \in DOMAIN content /\ content[1] = a
  BY <1>2, <1>3
<1> QED
  BY <1>4 DEF Decode

\* Writing an answer to a file leaves blocks of it and of what was there; to
\* an empty file, exactly the answer.
LEMMA OverwriteContent ==
  ASSUME NEW a \in Answers, NEW content \in Seq(Answers)
  PROVE  /\ Overwrite(content, a) \in Seq(Answers)
         /\ \A k : a.to = k /\ AnswersTo(content, k)
               => AnswersTo(Overwrite(content, a), k)
         /\ content = <<>> => Whole(Overwrite(content, a))
<1>1. a.size \in Nat /\ Len(content) \in Nat
  <2>1. a.size \in Sizes
    BY DEF Answers
  <2> QED
    BY <2>1, LenProperties
<1> DEFINE n == IF a.size >= Len(content) THEN a.size ELSE Len(content)
           new == [i \in 1 .. n |-> IF i <= a.size THEN a ELSE content[i]]
<1>2. n \in Nat /\ Overwrite(content, a) = new
  BY <1>1, MaxOfTwo DEF Overwrite
<1>3. \A i \in 1 .. n : ~(i <= a.size) => i \in DOMAIN content
  BY <1>1
<1>4. new \in Seq(Answers)
  BY <1>2, <1>3
<1>5. \A k : a.to = k /\ AnswersTo(content, k) => AnswersTo(new, k)
  BY <1>3 DEF AnswersTo
<1>6. content = <<>> => new = Written(a)
  BY <1>1 DEF Written
<1> QED
  BY <1>2, <1>4, <1>5, <1>6 DEF Whole

Stages == {"idle", "asking", "opened", "written", "returned", "raised"}

LEMMA InitIInv == Init => IInv
<1> SUFFICES ASSUME Init PROVE IInv
  OBVIOUS
<1> USE DEF Init
<1>1. \A k \in Keys : entry[k] = NoFile /\ temp[k] = NoFile
  OBVIOUS
<1>2. \A c \in Callers : pc[c] = "idle" /\ fd[c] = NoFile
  OBVIOUS
<1>3. <<>> \in Seq(Answers)
  OBVIOUS
<1>4. request \in [Callers -> Requests]
  <2>1. (CHOOSE r \in Requests : TRUE) \in Requests
    OBVIOUS
  <2> QED
    BY <2>1
<1>5. TypeOK /\ FilesTyped
  BY <1>2, <1>3, <1>4 DEF TypeOK, FilesTyped
<1>6. ServedWhole /\ OpenFilesOfKey /\ StoringAnswer /\ RacesSeen /\ StoredAlone
  BY <1>2 DEF ServedWhole, OpenFilesOfKey, StoringAnswer, RacesSeen,
     StoredAlone, Storing
<1>7. PathsApart /\ EntriesWhole /\ FilesOfKey /\ LostExplained
  BY <1>1 DEF PathsApart, EntriesWhole, FilesOfKey, LostExplained, Torn
<1> QED
  BY <1>5, <1>6, <1>7 DEF IInv

\* A step that leaves the directory alone, and in which callers only stop
\* storing.
LEMMA DirectoryUntouched ==
  ASSUME IInv, UNCHANGED <<entry, temp, blocks, raced>>,
         pc' \in [Callers -> Stages],
         request' \in [Callers -> Requests],
         response' \in [Callers -> Answers \cup {NoAnswer}],
         fd' \in [Callers -> Inodes \cup {NoFile}],
         kills' \in Nat, faults' \in Nat,
         \A c \in Callers : fd'[c] # NoFile <=> pc'[c] = "opened",
         \A c \in Callers :
            pc'[c] \in {"opened", "written"} =>
                /\ pc'[c] = pc[c] /\ fd'[c] = fd[c]
                /\ request'[c] = request[c] /\ response'[c] = response[c],
         ServedWhole', LostExplained'
  PROVE  IInv'
<1> USE DEF IInv
<1>1. Storing' \subseteq Storing
  BY DEF Storing
<1>2. ASSUME NEW c \in Storing'
      PROVE  /\ c \in Callers /\ KeyOf(c)' = KeyOf(c)
             /\ pc'[c] = pc[c] /\ fd'[c] = fd[c]
             /\ response'[c] = response[c]
  BY DEF Storing, KeyOf
<1>3. TypeOK' /\ FilesTyped'
  BY DEF TypeOK, FilesTyped, Stages
<1>4. PathsApart' /\ FilesOfKey'
  BY DEF PathsApart, FilesOfKey
<1>5. EntriesWhole'
  BY DEF EntriesWhole, Torn
<1>6. OpenFilesOfKey'
  <2>1. \A c \in Callers : pc'[c] = "opened" => c \in Storing'
    BY DEF Storing
  <2> QED
    BY <1>2, <2>1 DEF OpenFilesOfKey
<1>7. StoringAnswer' /\ RacesSeen'
  BY <1>1, <1>2 DEF StoringAnswer, RacesSeen
<1>8. StoredAlone'
  BY <1>1, <1>2 DEF StoredAlone
<1> QED
  BY <1>3, <1>4, <1>5, <1>6, <1>7, <1>8

\* A call begins: an entry that is found is an answer to it.
LEMMA AskIInv ==
  ASSUME IInv, NEW c \in Callers, NEW r \in Requests, Ask(c, r)
  PROVE  IInv'
<1> USE DEF IInv
<1> DEFINE k == Key(c, r)
           stored == Decode(blocks[entry[k]])
<1>1. /\ UNCHANGED <<entry, temp, blocks, fd, lost, raced, kills, faults>>
      /\ pc[c] \in {"idle", "returned", "raised"}
      /\ request' = [request EXCEPT ![c] = r]
      /\ \/ /\ Found(k)
            /\ pc' = [pc EXCEPT ![c] = "returned"]
            /\ response' = [response EXCEPT ![c] = stored]
         \/ /\ pc' = [pc EXCEPT ![c] = "asking"]
            /\ response' = response
  BY DEF Ask, Return, files
<1>2. k \in Keys /\ k = Asked(c, r)
  BY DEF Key, Keys
<1>3. Found(k) => stored \in Answers /\ stored.to = k
  <2> SUFFICES ASSUME Found(k) PROVE stored \in Answers /\ stored.to = k
    OBVIOUS
  <2>1. entry[k] # NoFile /\ Whole(blocks[entry[k]])
    BY DEF Found
  <2>2. AnswersTo(blocks[entry[k]], k)
    BY <1>2, <2>1 DEF FilesOfKey
  <2> QED
    BY <2>1, <2>2, WholeContent DEF AnswersTo
<1>4. /\ pc' \in [Callers -> Stages]
      /\ request' \in [Callers -> Requests]
      /\ response' \in [Callers -> Answers \cup {NoAnswer}]
  BY <1>1, <1>3 DEF TypeOK, Stages
<1>5. \A d \in Callers \ {c} :
        /\ pc'[d] = pc[d] /\ request'[d] = request[d]
        /\ response'[d] = response[d]
  BY <1>1 DEF TypeOK
<1>6. pc'[c] \in {"returned", "asking"}
  BY <1>1 DEF TypeOK
<1>7. ServedWhole'
  <2>1. pc'[c] = "returned" =>
          /\ response'[c] \in Answers
          /\ response'[c].to = Asked(c, request'[c])
    BY <1>1, <1>2, <1>3 DEF TypeOK
  <2> QED
    BY <1>5, <2>1 DEF ServedWhole
<1>8. LostExplained' /\ kills' \in Nat /\ faults' \in Nat
  BY <1>1 DEF LostExplained, FilesTyped
<1>9. \A d \in Callers : fd'[d] # NoFile <=> pc'[d] = "opened"
  BY <1>1, <1>5, <1>6 DEF TypeOK
<1>10. fd' \in [Callers -> Inodes \cup {NoFile}]
  BY <1>1 DEF FilesTyped
<1>11. \A d \in Callers :
        pc'[d] \in {"opened", "written"} =>
            /\ pc'[d] = pc[d] /\ fd'[d] = fd[d]
            /\ request'[d] = request[d] /\ response'[d] = response[d]
  BY <1>1, <1>5, <1>6
<1> QED
  BY <1>1, <1>4, <1>7, <1>8, <1>9, <1>10, <1>11, DirectoryUntouched

\* A call that ends without the cache.
LEMMA UncachedIInv ==
  ASSUME IInv, NEW c \in Callers,
         \/ InnerRaises(c)
         \/ \E s \in Sizes :
              AnswerUncached(c, [to |-> Asked(c, request[c]), size |-> s])
  PROVE  IInv'
<1> USE DEF IInv
<1>1. /\ UNCHANGED <<entry, temp, blocks, fd, lost, raced, kills, faults,
                     request>>
      /\ pc[c] = "asking"
      /\ \/ /\ pc' = [pc EXCEPT ![c] = "raised"]
            /\ response' = response
         \/ \E s \in Sizes :
              /\ pc' = [pc EXCEPT ![c] = "returned"]
              /\ response' = [response EXCEPT
                    ![c] = [to |-> Asked(c, request[c]), size |-> s]]
  BY DEF InnerRaises, AnswerUncached, Return, files, accounts, bounds
<1>2. \A s \in Sizes : [to |-> Asked(c, request[c]), size |-> s] \in Answers
  BY DEF Answers, Keys, TypeOK
<1>3. /\ pc' \in [Callers -> Stages]
      /\ response' \in [Callers -> Answers \cup {NoAnswer}]
  <2>1. /\ pc \in [Callers -> Stages] /\ "returned" \in Stages /\ "raised" \in Stages
        /\ response \in [Callers -> Answers \cup {NoAnswer}]
    BY DEF TypeOK, Stages
  <2>2. CASE pc' = [pc EXCEPT ![c] = "raised"] /\ response' = response
    BY ONLY <2>1, <2>2, c \in Callers
  <2>3. ASSUME NEW s \in Sizes,
               pc' = [pc EXCEPT ![c] = "returned"],
               response' = [response EXCEPT
                   ![c] = [to |-> Asked(c, request[c]), size |-> s]]
        PROVE  /\ pc' \in [Callers -> Stages]
               /\ response' \in [Callers -> Answers \cup {NoAnswer}]
    <3>1. [to |-> Asked(c, request[c]), size |-> s] \in Answers
      BY ONLY <1>2
    <3> QED
      BY ONLY <2>1, <2>3, <3>1, c \in Callers
  <2> QED
    BY ONLY <1>1, <2>2, <2>3
<1>4. \A d \in Callers \ {c} :
        pc'[d] = pc[d] /\ response'[d] = response[d]
  BY <1>1 DEF TypeOK
<1>5. pc'[c] \in {"returned", "raised"}
  BY <1>1 DEF TypeOK
<1>6. ServedWhole'
  <2>1. pc'[c] = "returned" =>
          /\ response'[c] \in Answers
          /\ response'[c].to = Asked(c, request[c])
    BY <1>1, <1>2 DEF TypeOK
  <2> QED
    BY <1>1, <1>4, <2>1 DEF ServedWhole
<1>7. LostExplained' /\ kills' \in Nat /\ faults' \in Nat
  BY <1>1 DEF LostExplained, FilesTyped
<1>8. \A d \in Callers : fd'[d] # NoFile <=> pc'[d] = "opened"
  BY <1>1, <1>4, <1>5 DEF TypeOK
<1>9. /\ fd' \in [Callers -> Inodes \cup {NoFile}]
      /\ request' \in [Callers -> Requests]
  BY <1>1 DEF FilesTyped, TypeOK
<1>10. \A d \in Callers :
        pc'[d] \in {"opened", "written"} =>
            /\ pc'[d] = pc[d] /\ fd'[d] = fd[d]
            /\ request'[d] = request[d] /\ response'[d] = response[d]
  BY <1>1, <1>4, <1>5
<1> QED
  BY <1>1, <1>3, <1>6, <1>7, <1>8, <1>9, <1>10, DirectoryUntouched

\* put() raises: the temporary file stays as it is.
LEMMA LosesIInv ==
  ASSUME IInv, NEW c \in Callers, WriteFails(c) \/ RenameFails(c)
  PROVE  IInv'
<1> USE DEF IInv
<1>1. /\ UNCHANGED <<entry, temp, blocks, raced, request, response>>
      /\ pc' = [pc EXCEPT ![c] = "raised"]
      /\ fd' = [fd EXCEPT ![c] = NoFile]
      /\ kills' = kills
  BY DEF WriteFails, RenameFails, LoseAnswer, bounds
<1>2. /\ pc' \in [Callers -> Stages]
      /\ fd' \in [Callers -> Inodes \cup {NoFile}]
      /\ request' \in [Callers -> Requests]
      /\ response' \in [Callers -> Answers \cup {NoAnswer}]
  BY <1>1 DEF TypeOK, FilesTyped, Stages
<1>3. \A d \in Callers \ {c} : pc'[d] = pc[d] /\ fd'[d] = fd[d]
  BY <1>1 DEF TypeOK, FilesTyped
<1>4. pc'[c] = "raised" /\ fd'[c] = NoFile
  BY <1>1 DEF TypeOK, FilesTyped
<1>5. ServedWhole'
  BY <1>1, <1>3, <1>4 DEF ServedWhole
<1>6. kills' \in Nat /\ faults' \in Nat /\ LostExplained'
  <2>1. CASE WriteFails(c)
    BY <1>1, <2>1 DEF WriteFails, LostExplained, FilesTyped
  <2>2. CASE RenameFails(c)
    <3>1. c \in Storing /\ temp[KeyOf(c)] = NoFile /\ pc[c] = "written"
      BY <2>2 DEF RenameFails, Storing
    <3>2. KeyOf(c) \in raced
      BY <3>1 DEF StoredAlone
    <3> QED
      BY <1>1, <2>2, <3>2 DEF RenameFails, bounds, LostExplained, FilesTyped
  <2> QED
    BY <2>1, <2>2
<1>7. \A d \in Callers : fd'[d] # NoFile <=> pc'[d] = "opened"
  BY <1>3, <1>4 DEF TypeOK
<1>8. \A d \in Callers :
        pc'[d] \in {"opened", "written"} =>
            /\ pc'[d] = pc[d] /\ fd'[d] = fd[d]
            /\ request'[d] = request[d] /\ response'[d] = response[d]
  BY <1>1, <1>3, <1>4
<1> QED
  BY <1>1, <1>2, <1>5, <1>6, <1>7, <1>8, DirectoryUntouched

\* A process is killed in the middle of anything.
LEMMA KillIInv ==
  ASSUME IInv, NEW p \in Procs, Kill(p)
  PROVE  IInv'
<1> USE DEF IInv
<1> DEFINE gone == {c \in Callers : ProcOf[c] = p}
<1>1. /\ UNCHANGED <<entry, temp, blocks, raced, request, response, faults>>
      /\ pc' = [c \in Callers |-> IF c \in gone THEN "idle" ELSE pc[c]]
      /\ fd' = [c \in Callers |-> IF c \in gone THEN NoFile ELSE fd[c]]
      /\ kills' = kills + 1
  BY DEF Kill
<1>2. /\ pc' \in [Callers -> Stages]
      /\ fd' \in [Callers -> Inodes \cup {NoFile}]
      /\ request' \in [Callers -> Requests]
      /\ response' \in [Callers -> Answers \cup {NoAnswer}]
  BY <1>1 DEF TypeOK, FilesTyped, Stages
<1>3. \A c \in Callers :
        \/ pc'[c] = "idle" /\ fd'[c] = NoFile
        \/ pc'[c] = pc[c] /\ fd'[c] = fd[c]
  BY <1>1
<1>4. ServedWhole'
  BY <1>1, <1>3 DEF ServedWhole
<1>5. kills' \in Nat /\ faults' \in Nat /\ LostExplained'
  BY <1>1 DEF FilesTyped, LostExplained
<1>6. \A c \in Callers : fd'[c] # NoFile <=> pc'[c] = "opened"
  BY <1>3 DEF TypeOK
<1>7. \A c \in Callers :
        pc'[c] \in {"opened", "written"} =>
            /\ pc'[c] = pc[c] /\ fd'[c] = fd[c]
            /\ request'[c] = request[c] /\ response'[c] = response[c]
  BY <1>1, <1>3
<1> QED
  BY <1>1, <1>2, <1>4, <1>5, <1>6, <1>7, DirectoryUntouched

\* The file behind the temporary path of a key, or a new one, is on no other
\* path, and only callers that store the same key have it open.
LEMMA TemporaryFile ==
  ASSUME IInv, NEW c \in Callers, pc[c] = "asking",
         NEW i, i = IF temp[KeyOf(c)] = NoFile THEN FreshInode
                    ELSE temp[KeyOf(c)]
  PROVE  /\ KeyOf(c) \in Keys
         /\ i \in Inodes /\ i # NoFile
         /\ \A l \in Keys : entry[l] # i /\ (temp[l] = i => l = KeyOf(c))
         /\ \A d \in Callers :
               fd[d] = i => d \in Storing /\ KeyOf(d) = KeyOf(c)
<1> USE DEF IInv
<1>1. KeyOf(c) \in Keys
  BY DEF KeyOf, Key, Keys, TypeOK
<1>2. CASE temp[KeyOf(c)] = NoFile
  <2>1. fd[c] = NoFile
    BY DEF TypeOK
  <2> QED
    BY <1>1, <1>2, <2>1, FreshExists
<1>3. CASE temp[KeyOf(c)] # NoFile
  <2>1. i \in Inodes /\ i # NoFile /\ i = temp[KeyOf(c)]
    BY <1>1, <1>3 DEF TypeOK
  <2>2. \A l \in Keys : entry[l] # i /\ (temp[l] = i => l = KeyOf(c))
    BY <1>1, <2>1 DEF PathsApart
  <2>3. ASSUME NEW d \in Callers, fd[d] = i
        PROVE  d \in Storing /\ KeyOf(d) = KeyOf(c)
    <3>1. pc[d] = "opened"
      BY <2>1, <2>3 DEF TypeOK
    <3> QED
      BY <1>1, <2>1, <2>3, <3>1 DEF OpenFilesOfKey, Storing
  <2> QED
    BY <1>1, <2>1, <2>2, <2>3
<1> QED
  BY <1>2, <1>3

\* The answer arrives and the temporary file is opened: whoever stores the
\* same key already is in a race from now on.
LEMMA AnswerIInv ==
  ASSUME IInv, NEW c \in Callers, NEW s \in Sizes,
         Answer(c, [to |-> Asked(c, request[c]), size |-> s])
  PROVE  IInv'
<1> USE DEF IInv
<1> DEFINE k == KeyOf(c)
           i == IF temp[k] = NoFile THEN FreshInode ELSE temp[k]
           a == [to |-> Asked(c, request[c]), size |-> s]
<1>1. /\ pc[c] = "asking"
      /\ pc' = [pc EXCEPT ![c] = "opened"]
      /\ response' = [response EXCEPT ![c] = a]
      /\ temp' = [temp EXCEPT ![k] = i]
      /\ blocks' = [blocks EXCEPT ![i] = <<>>]
      /\ fd' = [fd EXCEPT ![c] = i]
      /\ raced' = IF \E d \in Storing : KeyOf(d) = k
                  THEN raced \cup {k} ELSE raced
      /\ UNCHANGED <<entry, request, lost, kills, faults>>
  BY DEF Answer, OpenTemporary, bounds
<1>2. /\ k \in Keys
      /\ i \in Inodes /\ i # NoFile
      /\ \A l \in Keys : entry[l] # i /\ (temp[l] = i => l = k)
      /\ \A d \in Callers : fd[d] = i => d \in Storing /\ KeyOf(d) = k
  BY <1>1, TemporaryFile
<1>3. a \in Answers /\ a.to = k
  BY <1>2 DEF Answers, KeyOf, Key
<1> HIDE DEF i, a
<1>4. /\ \A d \in Callers \ {c} :
            /\ pc'[d] = pc[d] /\ fd'[d] = fd[d]
            /\ response'[d] = response[d]
      /\ pc'[c] = "opened" /\ fd'[c] = i /\ response'[c] = a
      /\ \A d \in Callers : KeyOf(d)' = KeyOf(d)
  BY <1>1 DEF TypeOK, FilesTyped, KeyOf
<1>5. /\ \A l \in Keys \ {k} : temp'[l] = temp[l]
      /\ temp'[k] = i
      /\ \A j \in Inodes \ {i} : blocks'[j] = blocks[j]
      /\ blocks'[i] = <<>>
  BY <1>1, <1>2 DEF TypeOK, FilesTyped
<1>6. c \notin Storing /\ Storing' = Storing \cup {c}
  BY <1>1, <1>4 DEF Storing
<1>7. raced \subseteq raced' /\ raced' \subseteq Keys
      /\ \A d \in Storing : KeyOf(d) = k => k \in raced'
  BY <1>1, <1>2 DEF TypeOK
<1>8. FilesTyped'
  <2>1. <<>> \in Seq(Answers)
    OBVIOUS
  <2> QED
    BY <1>1, <1>2, <2>1 DEF FilesTyped
<1>9. TypeOK'
  <2>1. \A d \in Callers : fd'[d] # NoFile <=> pc'[d] = "opened"
    BY <1>2, <1>4 DEF TypeOK
  <2>2. \A j \in Inodes : blocks'[j] \in Seq(Answers)
    BY <1>8 DEF FilesTyped
  <2> QED
    BY <1>1, <1>2, <1>3, <1>7, <2>1, <2>2 DEF TypeOK
<1>10. ServedWhole'
  BY <1>1, <1>4 DEF ServedWhole
<1>11. PathsApart'
  BY <1>1, <1>2, <1>5 DEF PathsApart
<1>12. OpenFilesOfKey'
  <2>1. ASSUME NEW d \in Callers, pc'[d] = "opened"
        PROVE  /\ fd'[d] \in Inodes
               /\ \A l \in Keys :
                    /\ entry'[l] = fd'[d] => l = KeyOf(d) /\ l \in raced'
                    /\ temp'[l] = fd'[d] => l = KeyOf(d)
    <3>1. CASE d = c
      BY <1>1, <1>2, <1>4, <1>5, <3>1
    <3>2. CASE d # c
      BY <1>1, <1>2, <1>4, <1>5, <1>7, <2>1, <3>2 DEF OpenFilesOfKey
    <3> QED
      BY <3>1, <3>2
  <2> QED
    BY <1>4, <2>1 DEF OpenFilesOfKey
<1>13. StoringAnswer'
  BY <1>3, <1>4, <1>6 DEF StoringAnswer, Storing
<1>14. RacesSeen'
  <2>1. \A d \in Storing' : d \in Callers /\ KeyOf(d)' = KeyOf(d)
    BY <1>4, <1>6 DEF Storing
  <2> QED
    BY <1>6, <1>7, <2>1 DEF RacesSeen
<1>15. StoredAlone'
  <2>1. ASSUME NEW d \in Storing', KeyOf(d) \notin raced'
        PROVE  /\ temp'[KeyOf(d)] # NoFile
               /\ pc'[d] = "opened" =>
                     temp'[KeyOf(d)] = fd'[d] /\ blocks'[fd'[d]] = <<>>
               /\ pc'[d] = "written" => Whole(blocks'[temp'[KeyOf(d)]])
    <3>1. CASE d = c
      BY <1>2, <1>4, <1>5, <3>1
    <3>2. CASE d # c
      <4>1. d \in Storing /\ KeyOf(d) # k /\ KeyOf(d) \notin raced
        BY <1>6, <1>7, <2>1, <3>2
      <4>2. KeyOf(d) \in Keys /\ d \in Callers
        BY <4>1 DEF StoringAnswer, Answers, Storing
      <4>3. temp[KeyOf(d)] # NoFile /\ temp[KeyOf(d)] \in Inodes \ {i}
        BY <1>2, <4>1, <4>2 DEF StoredAlone, TypeOK
      <4> QED
        BY <1>4, <1>5, <3>2, <4>1, <4>2, <4>3 DEF StoredAlone
    <3> QED
      BY <3>1, <3>2
  <2>2. \A d \in Storing' : KeyOf(d)' = KeyOf(d)
    BY <1>4, <1>6 DEF Storing
  <2> QED
    BY <2>1, <2>2 DEF StoredAlone, Whole
<1>16. EntriesWhole'
  <2>1. \A l \in Keys : entry[l] # NoFile => blocks'[entry[l]] = blocks[entry[l]]
    BY <1>2, <1>5 DEF TypeOK
  <2> QED
    BY <1>1, <1>7, <2>1 DEF EntriesWhole, Torn
<1>17. FilesOfKey'
  <2>1. \A l \in Keys : entry[l] # NoFile => blocks'[entry[l]] = blocks[entry[l]]
    BY <1>2, <1>5 DEF TypeOK
  <2>2. \A l \in Keys \ {k} :
          temp[l] # NoFile => blocks'[temp[l]] = blocks[temp[l]]
    BY <1>2, <1>5 DEF TypeOK
  <2>3. AnswersTo(blocks'[temp'[k]], k)
    BY <1>5 DEF AnswersTo
  <2> QED
    BY <1>1, <1>5, <2>1, <2>2, <2>3 DEF FilesOfKey
<1>18. LostExplained'
  BY <1>1, <1>7 DEF LostExplained
<1> QED
  BY <1>8, <1>9, <1>10, <1>11, <1>12, <1>13, <1>14, <1>15, <1>16, <1>17, <1>18

\* The temporary file is written: whole, unless another process has truncated
\* or renamed it meanwhile.
LEMMA WriteTemporaryIInv ==
  ASSUME IInv, NEW c \in Callers, WriteTemporary(c)
  PROVE  IInv'
<1> USE DEF IInv
<1> DEFINE k == KeyOf(c)
           i == fd[c]
           new == Overwrite(blocks[i], response[c])
<1>1. /\ pc[c] = "opened"
      /\ blocks' = [blocks EXCEPT ![i] = new]
      /\ fd' = [fd EXCEPT ![c] = NoFile]
      /\ pc' = [pc EXCEPT ![c] = "written"]
      /\ UNCHANGED <<entry, temp, request, response, raced, lost, kills, faults>>
  BY DEF WriteTemporary, accounts, bounds
<1>2. c \in Storing /\ i \in Inodes
      /\ response[c] \in Answers /\ response[c].to = k
  BY <1>1 DEF Storing, OpenFilesOfKey, StoringAnswer
<1>3. k \in Keys
  BY <1>2 DEF Answers
<1>4. /\ new \in Seq(Answers)
      /\ AnswersTo(blocks[i], k) => AnswersTo(new, k)
      /\ blocks[i] = <<>> => Whole(new)
  <2>1. blocks[i] \in Seq(Answers)
    BY <1>2 DEF FilesTyped
  <2> QED
    BY <1>2, <2>1, OverwriteContent
<1> HIDE DEF i, new
<1>5. /\ \A d \in Callers \ {c} : pc'[d] = pc[d] /\ fd'[d] = fd[d]
      /\ pc'[c] = "written" /\ fd'[c] = NoFile
      /\ \A d \in Callers : KeyOf(d)' = KeyOf(d)
  BY <1>1 DEF TypeOK, FilesTyped, KeyOf
<1>6. /\ \A j \in Inodes \ {i} : blocks'[j] = blocks[j]
      /\ blocks'[i] = new
  BY <1>1, <1>2 DEF FilesTyped
<1>7. Storing' = Storing
  BY <1>1, <1>5 DEF Storing
<1>8. FilesTyped'
  BY <1>1, <1>2, <1>4 DEF FilesTyped
<1>9. TypeOK'
  <2>1. \A d \in Callers : fd'[d] # NoFile <=> pc'[d] = "opened"
    BY <1>5 DEF TypeOK
  <2>2. \A j \in Inodes : blocks'[j] \in Seq(Answers)
    BY <1>8 DEF FilesTyped
  <2> QED
    BY <1>1, <2>1, <2>2 DEF TypeOK
<1>10. ServedWhole' /\ PathsApart' /\ LostExplained'
  BY <1>1, <1>5 DEF ServedWhole, PathsApart, LostExplained
<1>11. OpenFilesOfKey'
  BY <1>1, <1>5 DEF OpenFilesOfKey
<1>12. StoringAnswer' /\ RacesSeen'
  <2>1. \A d \in Storing : KeyOf(d)' = KeyOf(d) /\ response'[d] = response[d]
    BY <1>1, <1>5 DEF Storing
  <2> QED
    BY <1>1, <1>7, <2>1 DEF StoringAnswer, RacesSeen
<1>13. StoredAlone'
  <2>1. ASSUME NEW d \in Storing, KeyOf(d) \notin raced
        PROVE  /\ temp[KeyOf(d)] # NoFile
               /\ pc'[d] = "opened" =>
                     temp[KeyOf(d)] = fd'[d] /\ blocks'[fd'[d]] = <<>>
               /\ pc'[d] = "written" => Whole(blocks'[temp[KeyOf(d)]])
    <3>1. CASE d = c
      <4>1. temp[k] = i /\ blocks[i] = <<>>
        BY <1>1, <2>1, <3>1 DEF StoredAlone, i
      <4> QED
        BY <1>2, <1>4, <1>5, <1>6, <2>1, <3>1, <4>1 DEF FilesTyped
    <3>2. CASE d # c
      <4>1. KeyOf(d) # k
        BY <1>2, <2>1, <3>2 DEF RacesSeen
      <4>2. KeyOf(d) \in Keys /\ d \in Callers
        BY DEF StoringAnswer, Answers, Storing
      <4>3. temp[KeyOf(d)] # i
        BY <1>1, <4>1, <4>2 DEF OpenFilesOfKey, i
      <4>4. temp[KeyOf(d)] \in Inodes \ {i}
        BY <2>1, <4>2, <4>3 DEF StoredAlone, TypeOK
      <4> QED
        BY <1>5, <1>6, <2>1, <3>2, <4>2, <4>4 DEF StoredAlone
    <3> QED
      BY <3>1, <3>2
  <2>2. \A d \in Storing : KeyOf(d)' = KeyOf(d)
    BY <1>5 DEF Storing
  <2> QED
    BY <1>1, <1>7, <2>1, <2>2 DEF StoredAlone, Whole
<1>14. EntriesWhole'
  <2>1. ASSUME NEW l \in Keys, entry[l] # NoFile, l \notin raced
        PROVE  blocks'[entry[l]] = blocks[entry[l]]
    <3>1. entry[l] # i /\ entry[l] \in Inodes
      BY <1>1, <2>1 DEF OpenFilesOfKey, TypeOK, i
    <3> QED
      BY <1>6, <3>1
  <2> QED
    BY <1>1, <2>1 DEF EntriesWhole, Torn, Whole
<1>15. FilesOfKey'
  <2>1. ASSUME NEW l \in Keys, NEW j \in Inodes,
               j = entry[l] \/ j = temp[l],
               AnswersTo(blocks[j], l)
        PROVE  AnswersTo(blocks'[j], l)
    <3>1. CASE j = i
      <4>1. l = k
        BY <1>1, <2>1, <3>1 DEF OpenFilesOfKey, i
      <4> QED
        BY <1>4, <1>6, <2>1, <3>1, <4>1
    <3>2. CASE j # i
      BY <1>6, <2>1, <3>2
    <3> QED
      BY <3>1, <3>2
  <2>2. \A l \in Keys : /\ entry[l] # NoFile => entry[l] \in Inodes
                        /\ temp[l] # NoFile => temp[l] \in Inodes
    BY DEF TypeOK
  <2> QED
    BY <1>1, <2>1, <2>2 DEF FilesOfKey
<1> QED
  BY <1>8, <1>9, <1>10, <1>11, <1>12, <1>13, <1>14, <1>15

\* The temporary file becomes the entry.
LEMMA RenameIInv ==
  ASSUME IInv, NEW c \in Callers, Rename(c)
  PROVE  IInv'
<1> USE DEF IInv
<1> DEFINE k == KeyOf(c)
<1>1. /\ pc[c] = "written" /\ temp[k] # NoFile
      /\ entry' = [entry EXCEPT ![k] = temp[k]]
      /\ temp' = [temp EXCEPT ![k] = NoFile]
      /\ pc' = [pc EXCEPT ![c] = "returned"]
      /\ response' = [response EXCEPT ![c] = response[c]]
      /\ UNCHANGED <<blocks, fd, request, raced, lost, kills, faults>>
  BY DEF Rename, Return, bounds
<1>2. c \in Storing /\ response[c] \in Answers /\ response[c].to = k
  BY <1>1 DEF Storing, StoringAnswer
<1>3. k \in Keys /\ temp[k] \in Inodes
  BY <1>1, <1>2 DEF Answers, TypeOK
<1>4. response' = response
  BY <1>1 DEF TypeOK
<1>5. /\ \A d \in Callers \ {c} : pc'[d] = pc[d]
      /\ pc'[c] = "returned"
      /\ \A d \in Callers : KeyOf(d)' = KeyOf(d)
  BY <1>1 DEF TypeOK, KeyOf
<1>6. /\ \A l \in Keys \ {k} : entry'[l] = entry[l] /\ temp'[l] = temp[l]
      /\ entry'[k] = temp[k] /\ temp'[k] = NoFile
  BY <1>1, <1>3 DEF TypeOK
<1>7. Storing' = Storing \ {c}
  BY <1>5 DEF Storing
<1>8. TypeOK' /\ FilesTyped'
  <2>1. \A d \in Callers : fd'[d] # NoFile <=> pc'[d] = "opened"
    BY <1>1, <1>5 DEF TypeOK
  <2> QED
    BY <1>1, <1>3, <1>4, <2>1 DEF TypeOK, FilesTyped
<1>9. ServedWhole'
  <2>1. response'[c].to = Asked(c, request'[c])
    BY <1>1, <1>2, <1>4 DEF KeyOf, Key
  <2> QED
    BY <1>1, <1>2, <1>4, <1>5, <2>1 DEF ServedWhole
<1>10. PathsApart'
  BY <1>1, <1>3, <1>6 DEF PathsApart
<1>11. OpenFilesOfKey'
  <2>1. ASSUME NEW d \in Callers, pc'[d] = "opened"
        PROVE  /\ fd[d] \in Inodes
               /\ \A l \in Keys :
                    /\ entry'[l] = fd[d] => l = KeyOf(d) /\ l \in raced
                    /\ temp'[l] = fd[d] => l = KeyOf(d)
    <3>1. d # c /\ pc[d] = "opened" /\ d \in Storing
      BY <1>5, <2>1 DEF Storing
    <3>2. temp[k] = fd[d] => KeyOf(d) = k /\ k \in raced
      BY <1>2, <1>3, <3>1 DEF OpenFilesOfKey, RacesSeen
    <3>3. fd[d] # NoFile
      BY <3>1 DEF TypeOK
    <3> QED
      BY <1>6, <3>1, <3>2, <3>3 DEF OpenFilesOfKey
  <2> QED
    BY <1>1, <1>5, <2>1 DEF OpenFilesOfKey
<1>12. StoringAnswer' /\ RacesSeen'
  <2>1. \A d \in Storing : KeyOf(d)' = KeyOf(d) /\ response'[d] = response[d]
    BY <1>4, <1>5 DEF Storing
  <2> QED
    BY <1>1, <1>7, <2>1 DEF StoringAnswer, RacesSeen
<1>13. StoredAlone'
  <2>1. ASSUME NEW d \in Storing', KeyOf(d) \notin raced
        PROVE  /\ d \in Storing /\ pc'[d] = pc[d]
               /\ temp'[KeyOf(d)] = temp[KeyOf(d)]
    <3>1. d \in Storing /\ d # c /\ d \in Callers
      BY <1>7 DEF Storing
    <3>2. KeyOf(d) # k /\ KeyOf(d) \in Keys
      BY <1>2, <2>1, <3>1 DEF RacesSeen, StoringAnswer, Answers
    <3> QED
      BY <1>5, <1>6, <3>1, <3>2
  <2>2. \A d \in Storing' : KeyOf(d)' = KeyOf(d)
    BY <1>5, <1>7 DEF Storing
  <2> QED
    BY <1>1, <2>1, <2>2 DEF StoredAlone, Whole
<1>14. EntriesWhole'
  <2>1. k \notin raced => Whole(blocks[temp[k]])
    BY <1>1, <1>2 DEF StoredAlone
  <2> QED
    BY <1>1, <1>6, <2>1 DEF EntriesWhole, Torn, Whole
<1>15. FilesOfKey'
  BY <1>1, <1>3, <1>6 DEF FilesOfKey
<1>16. LostExplained'
  BY <1>1 DEF LostExplained
<1> QED
  BY <1>8, <1>9, <1>10, <1>11, <1>12, <1>13, <1>14, <1>15, <1>16

LEMMA NextIInv == IInv /\ [Next]_vars => IInv'
<1> SUFFICES ASSUME IInv, [Next]_vars PROVE IInv'
  OBVIOUS
<1>1. CASE Next
  <2>1. CASE \E p \in Procs : Kill(p)
    BY <2>1, KillIInv
  <2>2. ASSUME NEW c \in Callers,
               \/ \E r \in Requests : Ask(c, r)
               \/ InnerRaises(c)
               \/ \E s \in Sizes :
                    AnswerUncached(c, [to |-> Asked(c, request[c]), size |-> s])
               \/ \E s \in Sizes :
                    Answer(c, [to |-> Asked(c, request[c]), size |-> s])
               \/ WriteTemporary(c) \/ WriteFails(c)
               \/ Rename(c) \/ RenameFails(c)
        PROVE  IInv'
    BY <2>2, AskIInv, UncachedIInv, AnswerIInv, WriteTemporaryIInv, LosesIInv,
       RenameIInv
  <2> QED
    BY <1>1, <2>1, <2>2 DEF Next
<1>2. CASE UNCHANGED vars
  <2>1. UNCHANGED <<entry, temp, blocks, fd, pc, request, response, raced,
                    lost, kills, faults>>
    BY <1>2 DEF vars, files, accounts, bounds
  <2>2. ServedWhole' /\ LostExplained'
    BY <2>1 DEF IInv, ServedWhole, LostExplained
  <2> QED
    BY <2>1, <2>2, DirectoryUntouched DEF IInv, TypeOK, FilesTyped, Stages
<1> QED
  BY <1>1, <1>2

-----------------------------------------------------------------------------
(***************************************************************************)
(* Sums over finite sets                                                   *)
(***************************************************************************)

\* Every set of numbers with a member has a least one.
LEMMA LeastNumber ==
    ASSUME NEW T, T \subseteq Nat, T # {}
    PROVE  \E x \in T : \A y \in T : x <= y
<1>1. PICK x \in T : \A y \in T : ~ (<<y, x>> \in OpToRel(<, Nat))
  BY NatLessThanWellFounded, WFMin, Zenon
<1>2. \A y \in T : ~(y < x)
  BY <1>1 DEF OpToRel
<1> QED BY <1>2

\* The member that the fold takes next.
Some(s) == CHOOSE x \in s : TRUE

\* g[s] is f added up over s.
Sums(g, f, s) == g[s] = IF s = {} THEN 0 ELSE f[Some(s)] + g[s \ {Some(s)}]

\* g adds up f over every subset of S.
Summing(g, f, S) ==
    g = [s \in SUBSET S |-> IF s = {} THEN 0 ELSE f[Some(s)] + g[s \ {Some(s)}]]

\* The fold of the library is such a total.
LEMMA SumIsChosen ==
    ASSUME NEW f, NEW S
    PROVE  SumFunctionOnSet(f, S) = (CHOOSE g : Summing(g, f, S))[S]
BY DEF SumFunctionOnSet, FoldFunctionOnSet, MapThenFoldSet, Summing, Some

\* A subset of a finite set, and what is left of it without a member.
LEMMA OneLess ==
    ASSUME NEW S, IsFiniteSet(S), NEW s \in SUBSET S, NEW x \in s
    PROVE  /\ s \ {x} \in SUBSET S
           /\ Cardinality(s) \in Nat /\ Cardinality(s \ {x}) \in Nat
           /\ Cardinality(s \ {x}) = Cardinality(s) - 1
<1>1. IsFiniteSet(s)
  BY FS_Subset
<1>2. IsFiniteSet(s \ {x}) /\ Cardinality(s \ {x}) = Cardinality(s) - 1
  BY <1>1, FS_RemoveElement
<1> QED BY <1>1, <1>2, FS_CardinalityType

\* Two totals over one set agree: no subset of least size tells them apart.
LEMMA SumsAgree ==
    ASSUME NEW S, IsFiniteSet(S), NEW T, S \subseteq T,
           NEW f, NEW e, \A x \in S : f[x] = e[x],
           NEW g, Summing(g, f, S), NEW h, Summing(h, e, T)
    PROVE  \A s \in SUBSET S : g[s] = h[s]
<1> DEFINE Apart(s) == g[s] # h[s]
            Bad == {n \in Nat : \E s \in SUBSET S : Cardinality(s) = n /\ Apart(s)}
<1>1. \A s \in SUBSET S : Sums(g, f, s)
  BY DEF Summing, Sums
<1>2. \A s \in SUBSET T : Sums(h, e, s)
  BY DEF Summing, Sums
<1>3. ASSUME Bad # {} PROVE FALSE
  <2>1. Bad \subseteq Nat
    OBVIOUS
  <2> HIDE DEF Bad
  <2>2. PICK n \in Bad : \A k \in Bad : n <= k
    BY <1>3, <2>1, LeastNumber
  <2> USE DEF Bad
  <2>3. PICK s \in SUBSET S : Cardinality(s) = n /\ Apart(s)
    BY <2>2
  <2>4. s # {}
    BY <1>1, <1>2, <2>3 DEF Sums
  <2>5. Some(s) \in s
    BY <2>4 DEF Some
  <2>6. s \ {Some(s)} \in SUBSET S /\ Cardinality(s \ {Some(s)}) = n - 1 /\ n \in Nat
        /\ Cardinality(s \ {Some(s)}) \in Nat
    BY <2>3, <2>5, OneLess
  <2>7. ~ Apart(s \ {Some(s)})
    <3>1. n - 1 \notin Bad
      BY <2>1, <2>2, <2>6
    <3> QED BY <2>6, <3>1
  <2>8. f[Some(s)] = e[Some(s)]
    BY <2>5
  <2> QED BY <1>1, <1>2, <2>3, <2>4, <2>7, <2>8 DEF Sums
<1>4. ASSUME NEW s \in SUBSET S, Apart(s) PROVE FALSE
  <2>1. Cardinality(s) \in Nat
    BY FS_Subset, FS_CardinalityType
  <2> QED BY <1>3, <1>4, <2>1
<1> QED BY <1>4

\* A total over a finite set exists: no least size of subsets stops it.
LEMMA SumsExist ==
    ASSUME NEW S, IsFiniteSet(S), NEW f, \A x \in S : f[x] \in Int
    PROVE  \E g \in [SUBSET S -> Int] : Summing(g, f, S)
<1> DEFINE Upto(g, n) == \A s \in SUBSET S : Cardinality(s) <= n => Sums(g, f, s)
            Bad == {n \in Nat : ~ \E g \in [SUBSET S -> Int] : Upto(g, n)}
<1>1. ASSUME Bad # {} PROVE FALSE
  <2>1. Bad \subseteq Nat
    OBVIOUS
  <2> HIDE DEF Bad
  <2>2. PICK n \in Bad : \A k \in Bad : n <= k
    BY <1>1, <2>1, LeastNumber
  <2> USE DEF Bad
  <2> HIDE DEF Upto
  <2>3. n \in Nat
    BY <2>2
  <2>4. CASE n = 0
    <3> DEFINE g == [s \in SUBSET S |-> 0]
    <3>1. ASSUME NEW s \in SUBSET S, Cardinality(s) <= 0 PROVE s = {}
      BY <3>1, FS_Subset, FS_CardinalityType, FS_EmptySet
    <3>2. Upto(g, 0)
      BY <3>1 DEF Upto, Sums
    <3>3. g \in [SUBSET S -> Int]
      OBVIOUS
    <3> QED BY <2>2, <2>4, <3>2, <3>3
  <2>5. CASE n # 0
    <3> HIDE DEF Bad
    <3>1. n - 1 \in Nat
      BY <2>3, <2>5
    <3>0. n - 1 \notin Bad
      BY <2>2, <2>3, <3>1
    <3> USE DEF Bad
    <3>2. PICK g \in [SUBSET S -> Int] : Upto(g, n - 1)
      BY <3>0, <3>1
    <3> DEFINE h == [s \in SUBSET S |-> IF Cardinality(s) = n
                                         THEN f[Some(s)] + g[s \ {Some(s)}]
                                         ELSE g[s]]
    <3>3. ASSUME NEW s \in SUBSET S, s # {}
          PROVE  /\ Some(s) \in s /\ f[Some(s)] \in Int
                 /\ s \ {Some(s)} \in SUBSET S
                 /\ Cardinality(s) \in Nat
                 /\ Cardinality(s \ {Some(s)}) = Cardinality(s) - 1
      <4>1. Some(s) \in s
        BY <3>3 DEF Some
      <4> QED BY <4>1, OneLess
    <3>4. Cardinality({}) = 0
      BY FS_EmptySet
    <3>5. h \in [SUBSET S -> Int]
      <4>1. ASSUME NEW s \in SUBSET S PROVE h[s] \in Int
        <5>1. CASE Cardinality(s) = n
          <6>1. s # {}
            BY <2>5, <3>4, <5>1
          <6>2. h[s] = f[Some(s)] + g[s \ {Some(s)}]
            BY <5>1
          <6>3. f[Some(s)] \in Int /\ g[s \ {Some(s)}] \in Int
            BY <3>3, <6>1
          <6> QED BY <6>2, <6>3
        <5>2. CASE Cardinality(s) # n
          BY <5>2
        <5> QED BY <5>1, <5>2
      <4> QED BY <4>1
    <3>6. ASSUME NEW s \in SUBSET S, Cardinality(s) <= n PROVE Sums(h, f, s)
      <4>1. CASE s = {}
        <5>1. Sums(g, f, s)
          BY <3>1, <3>2, <3>4, <4>1 DEF Upto
        <5> QED BY <2>5, <3>4, <4>1, <5>1 DEF Sums
      <4>2. CASE s # {}
        <5> DEFINE r == s \ {Some(s)}
        <5>1. r \in SUBSET S /\ Cardinality(r) = Cardinality(s) - 1 /\ Cardinality(s) \in Nat
          BY <3>3, <4>2
        <5> HIDE DEF r
        <5>2. Cardinality(r) # n
          BY <2>3, <3>6, <5>1
        <5>3. h[r] = g[r]
          BY <5>1, <5>2
        <5>4. CASE Cardinality(s) = n
          <6>1. h[s] = f[Some(s)] + g[r]
            BY <5>4 DEF r
          <6> QED BY <4>2, <5>3, <6>1 DEF Sums, r
        <5>5. CASE Cardinality(s) # n
          <6>1. Cardinality(s) <= n - 1
            BY <2>3, <3>6, <5>1, <5>5
          <6>2. Sums(g, f, s)
            BY <3>2, <6>1 DEF Upto
          <6>3. h[s] = g[s]
            BY <5>5
          <6> QED BY <4>2, <5>3, <6>2, <6>3 DEF Sums, r
        <5> QED BY <5>4, <5>5
      <4> QED BY <4>1, <4>2
    <3> HIDE DEF h
    <3>7. Upto(h, n)
      BY <3>6 DEF Upto
    <3> QED BY <2>2, <3>5, <3>7
  <2> QED BY <2>4, <2>5
<1>2. Cardinality(S) \in Nat
  BY FS_CardinalityType
<1>3. PICK g \in [SUBSET S -> Int] : Upto(g, Cardinality(S))
  BY <1>1, <1>2
<1>4. ASSUME NEW s \in SUBSET S PROVE Sums(g, f, s)
  <2>1. Cardinality(s) <= Cardinality(S)
    BY FS_Subset
  <2> QED BY <1>3, <2>1
<1>5. g = [s \in SUBSET S |-> g[s]]
  BY <1>3
<1> QED BY <1>4, <1>5 DEF Summing, Sums

\* The total of a set is that of any total over a larger one, if what is added
\* up is the same.
LEMMA SumWithin ==
    ASSUME NEW T, IsFiniteSet(T), NEW S \in SUBSET T,
           NEW f, NEW e, \A x \in S : f[x] = e[x] /\ f[x] \in Int,
           NEW h, Summing(h, e, T)
    PROVE  SumFunctionOnSet(f, S) = h[S]
<1> DEFINE g == CHOOSE g : Summing(g, f, S)
<1>1. IsFiniteSet(S)
  BY FS_Subset
<1>2. Summing(g, f, S)
  BY <1>1, SumsExist
<1> HIDE DEF g
<1>3. g[S] = h[S]
  BY <1>1, <1>2, SumsAgree
<1> QED BY <1>3, SumIsChosen DEF g

\* What is added up decides the sum.
LEMMA SumOfAgreeing ==
    ASSUME NEW S, IsFiniteSet(S), NEW f, NEW e, \A x \in S : f[x] = e[x] /\ f[x] \in Int
    PROVE  SumFunctionOnSet(f, S) = SumFunctionOnSet(e, S)
<1>1. \A x \in S : e[x] \in Int
  OBVIOUS
<1>2. PICK h : Summing(h, e, S)
  BY <1>1, SumsExist
<1>3. SumFunctionOnSet(f, S) = h[S]
  <2> DEFINE g == CHOOSE g : Summing(g, f, S)
  <2>1. Summing(g, f, S)
    BY SumsExist
  <2> HIDE DEF g
  <2>2. S \subseteq S /\ \A x \in S : f[x] = e[x]
    OBVIOUS
  <2>3. \A s \in SUBSET S : g[s] = h[s]
    BY ONLY IsFiniteSet(S), <1>2, <2>1, <2>2, SumsAgree
  <2>4. g[S] = h[S]
    BY <2>3
  <2> QED BY ONLY <2>4, SumIsChosen DEF g
<1>4. SumFunctionOnSet(e, S) = h[S]
  <2>1. \A x \in S : e[x] = e[x] /\ e[x] \in Int
    BY <1>1
  <2>2. S \in SUBSET S
    OBVIOUS
  <2> QED BY ONLY IsFiniteSet(S), <1>2, <2>1, <2>2, SumWithin
<1> QED BY <1>3, <1>4

\* A sum takes its members in any order.
LEMMA SumStep ==
    ASSUME NEW S, IsFiniteSet(S), NEW f, \A x \in S : f[x] \in Int
    PROVE  /\ SumFunctionOnSet(f, S) \in Int
           /\ SumFunctionOnSet(f, {}) = 0
           /\ \A x \in S : SumFunctionOnSet(f, S) = f[x] + SumFunctionOnSet(f, S \ {x})
<1>1. PICK g \in [SUBSET S -> Int] : Summing(g, f, S)
  BY SumsExist
<1>2. \A s \in SUBSET S : SumFunctionOnSet(f, s) = g[s] /\ g[s] \in Int
  BY <1>1, SumWithin
<1>3. \A s \in SUBSET S : Sums(g, f, s)
  BY <1>1 DEF Summing, Sums
<1> DEFINE Apart(s) == \E x \in s : g[s] # f[x] + g[s \ {x}]
            Bad == {n \in Nat : \E s \in SUBSET S : Cardinality(s) = n /\ Apart(s)}
<1>4. ASSUME Bad # {} PROVE FALSE
  <2>1. Bad \subseteq Nat
    OBVIOUS
  <2> HIDE DEF Bad
  <2>2. PICK n \in Bad : \A k \in Bad : n <= k
    BY <1>4, <2>1, LeastNumber
  <2> USE DEF Bad
  <2>3. PICK s \in SUBSET S : Cardinality(s) = n /\ Apart(s)
    BY <2>2
  <2>4. PICK x \in s : g[s] # f[x] + g[s \ {x}]
    BY <2>3
  <2> DEFINE c == Some(s)
  <2>5. c \in s
    BY DEF Some
  <2>6. g[s] = f[c] + g[s \ {c}]
    BY <1>3 DEF Sums
  <2> HIDE DEF Apart, c
  <2>7. c # x
    BY <2>4, <2>6
  <2>8. ASSUME NEW y \in s
        PROVE  s \ {y} \in SUBSET S /\ ~ Apart(s \ {y})
    <3>1. s \ {y} \in SUBSET S /\ Cardinality(s \ {y}) = n - 1
          /\ Cardinality(s \ {y}) \in Nat /\ n \in Nat
      BY <2>3, OneLess
    <3>2. n - 1 \notin Bad
      BY <2>1, <2>2, <3>1
    <3> QED BY <3>1, <3>2
  <2>9. g[s \ {c}] = f[x] + g[(s \ {c}) \ {x}]
    BY <2>5, <2>7, <2>8 DEF Apart
  <2>10. g[s \ {x}] = f[c] + g[(s \ {x}) \ {c}]
    BY <2>5, <2>7, <2>8 DEF Apart
  <2>11. (s \ {c}) \ {x} = (s \ {x}) \ {c}
    OBVIOUS
  <2>12. f[x] \in Int /\ f[c] \in Int /\ g[(s \ {x}) \ {c}] \in Int
    <3>1. (s \ {x}) \ {c} \in SUBSET S
      OBVIOUS
    <3> QED BY <1>1, <2>5, <3>1
  <2>13. g[s] # f[x] + g[s \ {x}]
    BY <2>4
  <2>14. g[s \ {c}] = f[x] + g[(s \ {x}) \ {c}]
    BY <2>9, <2>11
  <2>15. f[c] + (f[x] + g[(s \ {x}) \ {c}]) = f[x] + (f[c] + g[(s \ {x}) \ {c}])
    BY <2>12
  <2> QED BY ONLY <2>6, <2>10, <2>13, <2>14, <2>15
<1>5. ASSUME NEW x \in S PROVE g[S] = f[x] + g[S \ {x}]
  <2>1. Cardinality(S) \in Nat
    BY FS_CardinalityType
  <2>2. ~ Apart(S)
    BY <1>4, <2>1
  <2> QED BY <2>2
<1>6. g[{}] = 0
  BY <1>3 DEF Sums
<1> QED BY <1>2, <1>5, <1>6

\* A sum splits into those of a subset and of the rest.
LEMMA SumSplits ==
    ASSUME NEW S, IsFiniteSet(S), NEW f, \A x \in S : f[x] \in Int, NEW K \in SUBSET S
    PROVE  SumFunctionOnSet(f, S) = SumFunctionOnSet(f, K) + SumFunctionOnSet(f, S \ K)
<1> DEFINE Of(s) == SumFunctionOnSet(f, s)
            Apart(s) == Of(S) # Of(s) + Of(S \ s)
            Bad == {n \in Nat : \E s \in SUBSET S : Cardinality(s) = n /\ Apart(s)}
<1>1. ASSUME NEW s \in SUBSET S
      PROVE  Of(s) \in Int /\ Of({}) = 0 /\ \A x \in s : Of(s) = f[x] + Of(s \ {x})
  BY FS_Subset, SumStep
<1> HIDE DEF Of
<1>2. ASSUME Bad # {} PROVE FALSE
  <2>1. Bad \subseteq Nat
    OBVIOUS
  <2> HIDE DEF Bad
  <2>2. PICK n \in Bad : \A k \in Bad : n <= k
    BY <1>2, <2>1, LeastNumber
  <2> USE DEF Bad
  <2>3. PICK s \in SUBSET S : Cardinality(s) = n /\ Apart(s)
    BY <2>2
  <2>4. s # {}
    <3>1. Of(S) = Of({}) + Of(S \ {})
      <4>1. S \ {} = S /\ {} \in SUBSET S /\ S \in SUBSET S
        OBVIOUS
      <4>2. Of(S) \in Int /\ Of({}) = 0
        BY <1>1, <4>1
      <4> QED BY <4>1, <4>2
    <3> QED BY <2>3, <3>1
  <2>5. PICK x \in s : TRUE
    BY <2>4
  <2>6. s \ {x} \in SUBSET S /\ Cardinality(s \ {x}) = n - 1
        /\ Cardinality(s \ {x}) \in Nat /\ n \in Nat
    BY <2>3, OneLess
  <2>7. ~ Apart(s \ {x})
    <3> HIDE DEF Bad
    <3>1. n - 1 \notin Bad
      BY <2>2, <2>6
    <3> USE DEF Bad
    <3> QED BY <2>6, <3>1
  <2>8. (S \ (s \ {x})) \ {x} = S \ s /\ x \in S \ (s \ {x}) /\ x \in S
    OBVIOUS
  <2>9. Of(S \ (s \ {x})) = f[x] + Of(S \ s)
    BY <1>1, <2>8
  <2>10. Of(s) = f[x] + Of(s \ {x})
    BY <1>1
  <2>11. f[x] \in Int /\ Of(s \ {x}) \in Int /\ Of(S \ s) \in Int
    BY <1>1, <2>8
  <2> QED BY <2>3, <2>7, <2>9, <2>10, <2>11
<1>3. Cardinality(K) \in Nat
  BY FS_Subset, FS_CardinalityType
<1>4. ~ Apart(K)
  BY <1>2, <1>3
<1> QED BY <1>4 DEF Of
-----------------------------------------------------------------------------
(***************************************************************************)
(* The bill                                                                *)
(***************************************************************************)

Accounts ==
    /\ charged \in Int /\ reported \in Int /\ lost \in Int
    /\ charged = reported + lost + CostOf(Storing)

\* The callers are finitely many, and their answers have a price.
LEMMA StoringCosts ==
  ASSUME IInv
  PROVE  /\ IsFiniteSet(Storing)
         /\ \A c \in Storing : Cost(response[c]) \in Int
<1>1. IsFiniteSet(Storing)
  BY FS_Subset DEF Storing
<1>2. ASSUME NEW c \in Storing PROVE Cost(response[c]) \in Int
  <2>1. /\ c \in Callers /\ response[c] \in Answers
        /\ response[c].to = Asked(c, request[c])
    BY DEF IInv, StoringAnswer, KeyOf, Key, Storing
  <2>2. Asked(c, request[c])[1] = ModelOf[ProcOf[c]]
    BY DEF Asked
  <2>3. response[c].size \in Nat
    BY <2>1 DEF Answers
  <2>4. Price[ModelOf[ProcOf[c]]] \in Int
    BY <2>1, PriceAssumption
  <2> QED
    BY <2>1, <2>2, <2>3, <2>4 DEF Cost
<1> QED
  BY <1>1, <1>2

\* The sum over some callers does not depend on the function it is written with.
LEMMA CostOfIsSum ==
  ASSUME NEW S, IsFiniteSet(S), NEW f, \A c \in S : f[c] = Cost(response[c]) /\ f[c] \in Int
  PROVE  CostOf(S) = SumFunctionOnSet(f, S)
<1> DEFINE e == [c \in S |-> Cost(response[c])]
<1>1. \A c \in S : f[c] = e[c] /\ f[c] \in Int
  OBVIOUS
<1> HIDE DEF e
<1>2. SumFunctionOnSet(f, S) = SumFunctionOnSet(e, S)
  BY <1>1, SumOfAgreeing
<1> QED
  BY <1>2 DEF CostOf, e

\* The answer of one caller.
LEMMA CostOfOne ==
  ASSUME NEW c, Cost(response[c]) \in Int
  PROVE  CostOf({c}) = Cost(response[c])
<1> DEFINE f == [d \in {c} |-> Cost(response[d])]
<1>1. IsFiniteSet({c}) /\ \A d \in {c} : f[d] \in Int
  BY FS_Singleton
<1>2. f[c] = Cost(response[c])
  OBVIOUS
<1> HIDE DEF f
<1>3. /\ SumFunctionOnSet(f, {c}) = f[c] + SumFunctionOnSet(f, {c} \ {c})
      /\ SumFunctionOnSet(f, {}) = 0
  BY <1>1, SumStep
<1>4. {c} \ {c} = {}
  OBVIOUS
<1>5. CostOf({c}) = SumFunctionOnSet(f, {c})
  BY DEF CostOf, f
<1>6. f[c] \in Int
  BY <1>1
<1>7. SumFunctionOnSet(f, {c}) = f[c] + 0
  BY <1>3, <1>4, Zenon
<1> QED
  BY ONLY <1>2, <1>5, <1>6, <1>7

\* A step that changes neither who stores nor what.
LEMMA CostOfSame ==
  ASSUME IInv, Storing' = Storing, \A c \in Storing : response'[c] = response[c]
  PROVE  CostOf(Storing)' = CostOf(Storing)
<1>1. [c \in Storing' |-> Cost(response'[c])] = [c \in Storing |-> Cost(response[c])]
  OBVIOUS
<1> QED
  BY <1>1 DEF CostOf

\* The answer of a caller that begins to store is added.
LEMMA CostOfMore ==
  ASSUME IInv, NEW c, c \notin Storing, Storing' = Storing \cup {c},
         \A d \in Storing : response'[d] = response[d],
         Cost(response'[c]) \in Int
  PROVE  CostOf(Storing)' = Cost(response'[c]) + CostOf(Storing)
<1> DEFINE f == [d \in Storing' |-> Cost(response'[d])]
<1>1. /\ IsFiniteSet(Storing) /\ IsFiniteSet(Storing')
      /\ \A d \in Storing : Cost(response[d]) \in Int
  BY StoringCosts, FS_AddElement
<1>2. /\ \A d \in Storing : f[d] = Cost(response[d]) /\ f[d] \in Int
      /\ f[c] = Cost(response'[c]) /\ f[c] \in Int
  BY <1>1
<1> HIDE DEF f
<1>3. CostOf(Storing) = SumFunctionOnSet(f, Storing)
  BY <1>1, <1>2, CostOfIsSum
<1>4. SumFunctionOnSet(f, Storing') = f[c] + SumFunctionOnSet(f, Storing' \ {c})
  BY <1>1, <1>2, SumStep
<1>5. Storing' \ {c} = Storing
  OBVIOUS
<1>6. CostOf(Storing)' = SumFunctionOnSet(f, Storing')
  BY DEF CostOf, f
<1> QED
  BY <1>2, <1>3, <1>4, <1>5, <1>6

\* The answers of callers that stop storing are taken off.
LEMMA CostOfFewer ==
  ASSUME IInv, NEW K \in SUBSET Storing, Storing' = Storing \ K,
         \A d \in Storing : response'[d] = response[d]
  PROVE  /\ CostOf(Storing) = CostOf(K) + CostOf(Storing)'
         /\ CostOf(K) \in Int /\ CostOf(Storing)' \in Int
<1> DEFINE f == [d \in Storing |-> Cost(response[d])]
<1>1. /\ IsFiniteSet(Storing) /\ IsFiniteSet(Storing \ K) /\ IsFiniteSet(K)
      /\ \A d \in Storing : Cost(response[d]) \in Int
  BY StoringCosts, FS_Subset
<1>2. \A d \in Storing : f[d] = Cost(response[d]) /\ f[d] \in Int
  BY <1>1
<1> HIDE DEF f
<1>3. /\ CostOf(Storing) = SumFunctionOnSet(f, Storing)
      /\ CostOf(K) = SumFunctionOnSet(f, K)
      /\ CostOf(Storing \ K) = SumFunctionOnSet(f, Storing \ K)
  BY <1>1, <1>2, CostOfIsSum
<1>4. SumFunctionOnSet(f, Storing) = SumFunctionOnSet(f, K) + SumFunctionOnSet(f, Storing \ K)
  BY <1>1, <1>2, SumSplits
<1>5. SumFunctionOnSet(f, K) \in Int /\ SumFunctionOnSet(f, Storing \ K) \in Int
  BY <1>1, <1>2, SumStep
<1>6. CostOf(Storing)' = CostOf(Storing \ K)
  <2>1. [d \in Storing' |-> Cost(response'[d])] = [d \in Storing \ K |-> Cost(response[d])]
    OBVIOUS
  <2> QED
    BY <2>1 DEF CostOf
<1> QED
  BY <1>3, <1>4, <1>5, <1>6

\* Nobody stores anything at first.
LEMMA InitAccounts == Init => Accounts
<1> SUFFICES ASSUME Init PROVE Accounts
  OBVIOUS
<1>1. Storing = {}
  BY DEF Init, Storing
<1>2. CostOf({}) = 0
  BY FS_EmptySet, SumStep DEF CostOf
<1> QED
  BY <1>1, <1>2 DEF Init, Accounts

\* The sum over the callers that store is a number.
LEMMA CostOfStoring ==
  ASSUME IInv
  PROVE  CostOf(Storing) \in Int
<1> DEFINE f == [c \in Storing |-> Cost(response[c])]
<1>1. \A c \in Storing : f[c] \in Int
  BY StoringCosts
<1> HIDE DEF f
<1>2. SumFunctionOnSet(f, Storing) \in Int
  BY <1>1, StoringCosts, SumStep
<1> QED
  BY <1>2 DEF CostOf, f

\* An answer that a caller stores reaches it, or is lost.
LEMMA AccountsOfOne ==
  ASSUME IInv, Accounts, NEW c \in Storing, Storing' = Storing \ {c},
         \A d \in Storing : response'[d] = response[d],
         charged' = charged,
         \/ lost' = lost + Cost(response[c]) /\ reported' = reported
         \/ lost' = lost /\ reported' = reported + Cost(response[c])
  PROVE  Accounts'
<1>1. Cost(response[c]) \in Int /\ CostOf({c}) = Cost(response[c])
  BY StoringCosts, CostOfOne
<1>2. CostOf(Storing) = CostOf({c}) + CostOf(Storing)' /\ CostOf(Storing)' \in Int
  BY CostOfFewer
<1> QED
  BY <1>1, <1>2 DEF Accounts

\* Every step keeps the bill.
LEMMA NextAccounts ==
  ASSUME IInv, IInv', Accounts, [Next]_vars
  PROVE  Accounts'
<1>0. ASSUME NEW c \in Callers, NEW s \in Sizes
      PROVE  Cost([to |-> Asked(c, request[c]), size |-> s]) \in Int
  <2>1. Price[ModelOf[ProcOf[c]]] \in Int /\ s \in Int
    BY PriceAssumption
  <2> QED
    BY <2>1 DEF Cost, Asked
<1>1. ASSUME NEW c \in Callers, NEW r \in Requests, Ask(c, r) PROVE Accounts'
  <2>1. /\ UNCHANGED <<charged, lost>> /\ pc[c] \in {"idle", "returned", "raised"}
        /\ \/ /\ pc' = [pc EXCEPT ![c] = "returned"]
              /\ reported' = reported + 0
              /\ \E a : response' = [response EXCEPT ![c] = a]
           \/ /\ pc' = [pc EXCEPT ![c] = "asking"]
              /\ UNCHANGED <<response, reported>>
    BY <1>1 DEF Ask, Return, HitCost
  <2>2. Storing' = Storing
    BY <2>1 DEF Storing, IInv, TypeOK
  <2>3. \A d \in Storing : response'[d] = response[d]
    BY <2>1 DEF Storing, IInv, TypeOK
  <2>4. CostOf(Storing)' = CostOf(Storing)
    BY <2>2, <2>3, CostOfSame
  <2>5. reported' = reported
    BY <2>1 DEF Accounts
  <2> QED
    BY <2>1, <2>4, <2>5 DEF Accounts
<1>2. ASSUME NEW c \in Callers, InnerRaises(c) PROVE Accounts'
  <2>1. UNCHANGED <<charged, lost, reported, response>> /\ Storing' = Storing
    BY <1>2 DEF InnerRaises, accounts, Storing, IInv, TypeOK
  <2>2. CostOf(Storing)' = CostOf(Storing)
    BY <2>1, CostOfSame
  <2> QED
    BY <2>1, <2>2 DEF Accounts
<1>3. ASSUME NEW c \in Callers, NEW s \in Sizes,
             AnswerUncached(c, [to |-> Asked(c, request[c]), size |-> s])
      PROVE  Accounts'
  <2> DEFINE a == [to |-> Asked(c, request[c]), size |-> s]
  <2>1. /\ charged' = charged + Cost(a) /\ reported' = reported + Cost(a)
        /\ UNCHANGED lost /\ pc[c] = "asking"
        /\ pc' = [pc EXCEPT ![c] = "returned"]
        /\ response' = [response EXCEPT ![c] = a]
    BY <1>3 DEF AnswerUncached, Return
  <2>2. Cost(a) \in Int
    BY <1>0
  <2> HIDE DEF a
  <2>3. Storing' = Storing /\ \A d \in Storing : response'[d] = response[d]
    BY <2>1 DEF Storing, IInv, TypeOK
  <2>4. CostOf(Storing)' = CostOf(Storing)
    BY <2>3, CostOfSame
  <2>5. charged = reported + lost + CostOf(Storing)
        /\ charged \in Int /\ reported \in Int /\ lost \in Int
    BY DEF Accounts
  <2>6. CostOf(Storing) \in Int
    BY CostOfStoring
  <2> QED
    BY <2>1, <2>2, <2>4, <2>5, <2>6 DEF Accounts
<1>4. ASSUME NEW c \in Callers, NEW s \in Sizes,
             Answer(c, [to |-> Asked(c, request[c]), size |-> s])
      PROVE  Accounts'
  <2> DEFINE a == [to |-> Asked(c, request[c]), size |-> s]
  <2>1. /\ charged' = charged + Cost(a) /\ UNCHANGED <<lost, reported>>
        /\ pc[c] = "asking"
        /\ pc' = [pc EXCEPT ![c] = "opened"]
        /\ response' = [response EXCEPT ![c] = a]
    BY <1>4 DEF Answer
  <2>2. Cost(a) \in Int
    BY <1>0
  <2> HIDE DEF a
  <2>3. /\ c \notin Storing /\ Storing' = Storing \cup {c} /\ response'[c] = a
        /\ \A d \in Storing : response'[d] = response[d]
    BY <2>1 DEF Storing, IInv, TypeOK
  <2>4. CostOf(Storing)' = Cost(a) + CostOf(Storing)
    BY <2>2, <2>3, CostOfMore
  <2>5. CostOf(Storing) \in Int
    BY CostOfStoring
  <2> QED
    BY <2>1, <2>2, <2>4, <2>5 DEF Accounts
<1>5. ASSUME NEW c \in Callers, WriteTemporary(c) PROVE Accounts'
  <2>1. UNCHANGED <<charged, lost, reported, response>> /\ Storing' = Storing
    BY <1>5 DEF WriteTemporary, accounts, Storing, IInv, TypeOK
  <2>2. CostOf(Storing)' = CostOf(Storing)
    BY <2>1, CostOfSame
  <2> QED
    BY <2>1, <2>2 DEF Accounts
<1>6. ASSUME NEW c \in Callers, WriteFails(c) \/ RenameFails(c) PROVE Accounts'
  <2>1. /\ pc[c] \in {"opened", "written"} /\ pc' = [pc EXCEPT ![c] = "raised"]
        /\ lost' = lost + Cost(response[c])
        /\ UNCHANGED <<charged, reported, response>>
    BY <1>6 DEF WriteFails, RenameFails, LoseAnswer
  <2>2. c \in Storing /\ Storing' = Storing \ {c}
    BY <2>1 DEF Storing, IInv, TypeOK
  <2> QED
    BY <2>1, <2>2, AccountsOfOne
<1>7. ASSUME NEW c \in Callers, Rename(c) PROVE Accounts'
  <2>1. /\ pc[c] = "written" /\ pc' = [pc EXCEPT ![c] = "returned"]
        /\ reported' = reported + Cost(response[c])
        /\ response' = [response EXCEPT ![c] = response[c]]
        /\ UNCHANGED <<charged, lost>>
    BY <1>7 DEF Rename, Return
  <2>2. c \in Storing /\ Storing' = Storing \ {c}
    BY <2>1 DEF Storing, IInv, TypeOK
  <2>3. \A d \in Storing : response'[d] = response[d]
    BY <2>1 DEF Storing, IInv, TypeOK
  <2> QED
    BY <2>1, <2>2, <2>3, AccountsOfOne
<1>8. ASSUME NEW p \in Procs, Kill(p) PROVE Accounts'
  <2> DEFINE gone == {c \in Callers : ProcOf[c] = p}
             K == gone \cap Storing
  <2>1. /\ lost' = lost + CostOf(K) /\ UNCHANGED <<charged, reported, response>>
        /\ pc' = [c \in Callers |-> IF c \in gone THEN "idle" ELSE pc[c]]
    BY <1>8 DEF Kill
  <2>2. K \in SUBSET Storing /\ Storing' = Storing \ K
    BY <2>1 DEF Storing
  <2> HIDE DEF K
  <2>3. /\ CostOf(Storing) = CostOf(K) + CostOf(Storing)'
        /\ CostOf(K) \in Int /\ CostOf(Storing)' \in Int
    BY <2>1, <2>2, CostOfFewer
  <2> QED
    BY <2>1, <2>3 DEF Accounts
<1>9. CASE UNCHANGED vars
  <2>1. UNCHANGED <<charged, lost, reported, response, pc>>
    BY <1>9 DEF vars, accounts
  <2>2. Storing' = Storing
    BY <2>1 DEF Storing
  <2>3. CostOf(Storing)' = CostOf(Storing)
    BY <2>1, <2>2, CostOfSame
  <2> QED
    BY <2>1, <2>3 DEF Accounts
<1> QED
  BY <1>1, <1>2, <1>3, <1>4, <1>5, <1>6, <1>7, <1>8, <1>9 DEF Next

-----------------------------------------------------------------------------
\* The inductive invariant of the cache: who leads to which file.
THEOREM SpecIInv == Spec => []IInv
  BY InitIInv, NextIInv, PTL DEF Spec

\* However many processes share the directory, race and are killed: complete()
\* returns one whole answer to its own request, by its own model; and every
\* dollar that the provider charged was reported once, is in the hands of a
\* caller that is storing, or was lost to a kill, a full disk or a race.
THEOREM CacheIsSound == Spec => []AnswersSound
<1>1. Init => IInv /\ Accounts
  BY InitIInv, InitAccounts
<1>2. IInv /\ Accounts /\ [Next]_vars => (IInv /\ Accounts)'
  BY NextIInv, NextAccounts
<1>3. IInv /\ Accounts => AnswersSound
  BY DEF IInv, Accounts, AnswersSound, PaidReportedOnce, LostExplained
<1> QED
  BY <1>1, <1>2, <1>3, PTL DEF Spec

\* "Write-then-rename so a crash mid-write cannot leave a torn entry"
\* (ResponseCache.put), and a stored answer is not lost again: for every key
\* that no two processes store at once.
THEOREM EntriesStayAtomic == Spec => EntriesAtomic
<1>1. IInv => \A k \in Keys : Torn(k) => k \in raced
  BY DEF IInv, EntriesWhole
<1>2. ASSUME IInv, IInv', [Next]_vars
      PROVE  [\A k \in Keys : Found(k) /\ ~Found(k)' => k \in raced']_vars
  <2> SUFFICES ASSUME NEW k \in Keys, Found(k), ~Found(k)'
               PROVE  k \in raced'
    OBVIOUS
  <2>1. entry'[k] # NoFile
    <3>1. entry[k] # NoFile
      BY DEF Found
    <3>2. CASE UNCHANGED entry
      BY <3>1, <3>2
    <3>3. ASSUME NEW c \in Callers, Rename(c)
          PROVE  entry'[k] # NoFile
      BY <1>2, <3>1, <3>3 DEF Rename, IInv, TypeOK
    <3> QED
      BY <1>2, <3>2, <3>3 DEF Next, vars, files, Ask, InnerRaises,
         AnswerUncached, Answer, OpenTemporary, WriteTemporary, WriteFails,
         LoseAnswer, RenameFails, Kill
  <2>2. Torn(k)'
    BY <2>1 DEF Found, Torn
  <2> QED
    BY <1>2, <2>2 DEF IInv, EntriesWhole
<1> QED
  BY <1>1, <1>2, SpecIInv, PTL DEF Spec, EntriesAtomic
=============================================================================
