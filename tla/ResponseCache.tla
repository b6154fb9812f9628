---------------------------- MODULE ResponseCache ----------------------------
(***************************************************************************)
(* The response cache (model/cache.py) and where it sits in front of the   *)
(* provider (model/providers.py): one file per request in a directory that *)
(* processes share.                                                        *)
(*                                                                         *)
(* Inside a process get() and put() run without an await, so nothing else  *)
(* of that process moves between the opening of the temporary file and its *)
(* renaming.  Other processes do, and they use the same temporary name.    *)
(* The file system is external: a path leads to a file (an inode), opening *)
(* for writing truncates the file that is there, a rename replaces what    *)
(* the target leads to, and whoever holds a file open writes to the file,  *)
(* not to the path.  One write is all or nothing.                          *)
(*                                                                         *)
(* An answer is what it answers and its size in blocks.  A file is a       *)
(* sequence of blocks, each of the answer that wrote it; it parses when it *)
(* is exactly one answer.                                                  *)
(***************************************************************************)
EXTENDS Integers, FiniteSets, FiniteSetsExt, SequencesExt

CONSTANTS
    Callers,    \* attempts that call complete()
    ProcOf,     \* the process of each
    ModelOf,    \* the model each process runs with
    Caching,    \* the processes without --no-cache
    Requests,   \* requests that are asked
    Sizes,      \* sizes of the answers, in blocks
    Price,      \* cost of a block by model, from PricingTable
    NoFile,     \* a path that leads nowhere, a file that is not open
    MaxCalls,   \* bound of the model on calls
    MaxKills,   \* bound of the model on killed processes
    MaxFaults   \* bound of the model on writes that the disk refuses

Procs == {ProcOf[c] : c \in Callers}
Asked(c, r) == <<ModelOf[ProcOf[c]], r>>
Keys == {Asked(c, r) : c \in Callers, r \in Requests}
Inodes == 1 .. 2 * Cardinality(Keys) + Cardinality(Callers)

\* Mutant: the key leaves the model out.
KeyWithoutModel(c, r) == CHOOSE k \in Keys : k[2] = r

\* ModelRequest.cache_key: all that can change the answer.
Key(c, r) == Asked(c, r)

Answers == [to : Keys, size : Sizes]

\* PricingTable.cost_for.
Cost(a) == Price[a.to[1]] * a.size

VARIABLES
    entry,      \* the file at the path of each key
    temp,       \* the file at its temporary path
    blocks,     \* contents of the files
    fd,         \* the file that a caller has open for writing
    pc,         \* where each caller stands in complete()
    request,    \* what it asks for
    response,   \* what it got
    charged,    \* history: dollars that the provider charged
    reported,   \* history: dollars that callers were told of
    lost,       \* history: dollars of answers that reached nobody
    raced,      \* history: keys that two processes stored at once
    kills, faults, calls

files == <<entry, temp, blocks, fd>>
accounts == <<charged, reported, lost>>
bounds == <<kills, faults, calls>>
vars == <<files, pc, request, response, accounts, raced, bounds>>

NoAnswer == [to |-> <<>>, size |-> 0]

ASSUME CacheAssumption ==
    /\ IsFiniteSet(Callers) /\ IsFiniteSet(Requests)
    /\ Requests # {}
    /\ Sizes \subseteq Nat \ {0}
    /\ NoFile \notin Inodes

ASSUME PriceAssumption == \A c \in Callers : Price[ModelOf[ProcOf[c]]] \in Int

Init ==
    /\ entry = [k \in Keys |-> NoFile]
    /\ temp = [k \in Keys |-> NoFile]
    /\ blocks = [i \in Inodes |-> <<>>]
    /\ fd = [c \in Callers |-> NoFile]
    /\ pc = [c \in Callers |-> "idle"]
    /\ request = [c \in Callers |-> CHOOSE r \in Requests : TRUE]
    /\ response = [c \in Callers |-> NoAnswer]
    /\ charged = 0 /\ reported = 0 /\ lost = 0
    /\ raced = {}
    /\ kills = 0 /\ faults = 0 /\ calls = 0

-----------------------------------------------------------------------------
KeyOf(c) == Key(c, request[c])

\* Callers in the middle of put(), and whether a process is not in one.
Storing == {c \in Callers : pc[c] \in {"opened", "written"}}
Free(p) == \A c \in Storing : ProcOf[c] # p

\* What the answers in the hands of some callers have cost.
CostOf(cs) == SumFunctionOnSet([c \in cs |-> Cost(response[c])], cs)

\* The contents that one answer leaves, and whether a file is exactly one.
Written(a) == [b \in 1 .. a.size |-> a]
Whole(content) == \E a \in Answers : content = Written(a)

\* Writing from the start of a file: what is longer than the answer stays.
Overwrite(content, a) ==
    [b \in 1 .. Max({a.size, Len(content)}) |-> IF b <= a.size THEN a ELSE content[b]]

\* Mutant: whatever is in the file is served.
FoundUnparsed(k) == entry[k] # NoFile

\* ResponseCache.get finds an entry that parses; a corrupt one is a miss.
Found(k) == entry[k] # NoFile /\ Whole(blocks[entry[k]])

\* _decode of the contents of a file.
Decode(content) == IF Whole(content) THEN Head(content) ELSE NoAnswer

\* Mutant: a hit keeps the cost it was stored with.
KeptCost(a) == Cost(a)

\* _decode: "a replay costs nothing further".
HitCost(a) == 0

\* A caller returns, having been told of a cost.
Return(c, a, cost) ==
    /\ pc' = [pc EXCEPT ![c] = "returned"]
    /\ response' = [response EXCEPT ![c] = a]
    /\ reported' = reported + cost

-----------------------------------------------------------------------------
\* CachingModelClient.complete: a hit does not reach the budget or the provider.
Ask(c, r) ==
    LET k == Key(c, r)
        hit == ProcOf[c] \in Caching /\ Found(k)
        stored == Decode(blocks[entry[k]])
    IN
    /\ pc[c] \in {"idle", "returned", "raised"}
    /\ Free(ProcOf[c])
    /\ calls < MaxCalls
    /\ calls' = calls + 1
    /\ request' = [request EXCEPT ![c] = r]
    /\ \/ /\ hit
          /\ Return(c, stored, HitCost(stored))
       \/ /\ ~hit
          /\ pc' = [pc EXCEPT ![c] = "asking"]
          /\ UNCHANGED <<response, reported>>
    /\ UNCHANGED <<files, charged, lost, raced, kills, faults>>

\* The budget, the limiter or the provider raises: nothing is stored.
InnerRaises(c) ==
    /\ pc[c] = "asking"
    /\ Free(ProcOf[c])
    /\ pc' = [pc EXCEPT ![c] = "raised"]
    /\ UNCHANGED <<files, request, response, accounts, raced, bounds>>

\* An answer without a cache.
AnswerUncached(c, a) ==
    /\ pc[c] = "asking" /\ ProcOf[c] \notin Caching
    /\ charged' = charged + Cost(a)
    /\ Return(c, a, Cost(a))
    /\ UNCHANGED <<files, request, lost, raced, bounds>>

\* A file that no path and no caller leads to.
FreshInode ==
    CHOOSE i \in Inodes :
        /\ \A k \in Keys : i # entry[k] /\ i # temp[k]
        /\ \A c \in Callers : i # fd[c]

\* Mutant: put() writes to the path of the entry.
OpenEntry(c, k) ==
    LET i == IF entry[k] = NoFile THEN FreshInode ELSE entry[k]
    IN
    /\ entry' = [entry EXCEPT ![k] = i]
    /\ temp' = [temp EXCEPT ![k] = i]
    /\ blocks' = [blocks EXCEPT ![i] = <<>>]
    /\ fd' = [fd EXCEPT ![c] = i]

\* write_text opens the temporary file: a new one, or the one that is there.
OpenTemporary(c, k) ==
    LET i == IF temp[k] = NoFile THEN FreshInode ELSE temp[k]
    IN
    /\ temp' = [temp EXCEPT ![k] = i]
    /\ blocks' = [blocks EXCEPT ![i] = <<>>]
    /\ fd' = [fd EXCEPT ![c] = i]
    /\ UNCHANGED entry

\* The answer of the provider, and the first step of put().
Answer(c, a) ==
    /\ pc[c] = "asking" /\ ProcOf[c] \in Caching
    /\ Free(ProcOf[c])
    /\ charged' = charged + Cost(a)
    /\ response' = [response EXCEPT ![c] = a]
    /\ OpenTemporary(c, KeyOf(c))
    /\ raced' = IF \E d \in Storing : KeyOf(d) = KeyOf(c)
                THEN raced \cup {KeyOf(c)} ELSE raced
    /\ pc' = [pc EXCEPT ![c] = "opened"]
    /\ UNCHANGED <<request, reported, lost, bounds>>

\* The rest of write_text.
WriteTemporary(c) ==
    /\ pc[c] = "opened"
    /\ blocks' = [blocks EXCEPT ![fd[c]] = Overwrite(@, response[c])]
    /\ fd' = [fd EXCEPT ![c] = NoFile]
    /\ pc' = [pc EXCEPT ![c] = "written"]
    /\ UNCHANGED <<entry, temp, request, response, accounts, raced, bounds>>

\* put() raises: the answer was paid for and reaches nobody.
LoseAnswer(c) ==
    /\ pc' = [pc EXCEPT ![c] = "raised"]
    /\ fd' = [fd EXCEPT ![c] = NoFile]
    /\ lost' = lost + Cost(response[c])
    /\ UNCHANGED <<entry, temp, blocks, request, response, charged, reported, raced>>

\* The disk is full: the temporary file stays behind.
WriteFails(c) ==
    /\ pc[c] = "opened"
    /\ faults < MaxFaults
    /\ faults' = faults + 1
    /\ LoseAnswer(c)
    /\ UNCHANGED <<kills, calls>>

\* Path.replace, and the return of complete().
Rename(c) ==
    LET k == KeyOf(c)
    IN
    /\ pc[c] = "written"
    /\ temp[k] # NoFile
    /\ entry' = [entry EXCEPT ![k] = temp[k]]
    /\ temp' = [temp EXCEPT ![k] = NoFile]
    /\ Return(c, response[c], Cost(response[c]))
    /\ UNCHANGED <<blocks, fd, request, charged, lost, raced, bounds>>

\* Another process has taken the temporary file away: FileNotFoundError.
RenameFails(c) ==
    /\ pc[c] = "written"
    /\ temp[KeyOf(c)] = NoFile
    /\ LoseAnswer(c)
    /\ UNCHANGED bounds

\* A process is killed; the next one takes its place.
Kill(p) ==
    LET gone == {c \in Callers : ProcOf[c] = p}
    IN
    /\ kills < MaxKills
    /\ kills' = kills + 1
    /\ pc' = [c \in Callers |-> IF c \in gone THEN "idle" ELSE pc[c]]
    /\ fd' = [c \in Callers |-> IF c \in gone THEN NoFile ELSE fd[c]]
    /\ lost' = lost + CostOf(gone \cap Storing)
    /\ UNCHANGED <<entry, temp, blocks, request, response, charged, reported, raced,
                   faults, calls>>

Next ==
    \/ \E c \in Callers :
         \/ \E r \in Requests : Ask(c, r)
         \/ InnerRaises(c)
         \/ \E s \in Sizes : AnswerUncached(c, [to |-> Asked(c, request[c]), size |-> s])
         \/ \E s \in Sizes : Answer(c, [to |-> Asked(c, request[c]), size |-> s])
         \/ WriteTemporary(c)
         \/ WriteFails(c)
         \/ Rename(c)
         \/ RenameFails(c)
    \/ \E p \in Procs : Kill(p)

Spec == Init /\ [][Next]_vars

-----------------------------------------------------------------------------
\* Types.
TypeOK ==
    /\ entry \in [Keys -> Inodes \cup {NoFile}]
    /\ temp \in [Keys -> Inodes \cup {NoFile}]
    /\ \A i \in Inodes : blocks[i] \in Seq(Answers)
    /\ \A c \in Callers : fd[c] # NoFile <=> pc[c] = "opened"
    /\ pc \in [Callers -> {"idle", "asking", "opened", "written", "returned", "raised"}]
    /\ request \in [Callers -> Requests]
    /\ response \in [Callers -> Answers \cup {NoAnswer}]
    /\ raced \subseteq Keys

\* Whatever processes race, are killed or run out of disk, complete() returns
\* one whole answer to the request it was given, from the model it was given
\* for: a torn entry is a miss, and no entry answers for another.
ServedWhole ==
    \A c \in Callers :
        pc[c] = "returned" =>
            /\ response[c] \in Answers
            /\ response[c].to = Asked(c, request[c])

Torn(k) == entry[k] # NoFile /\ ~Whole(blocks[entry[k]])

\* "Write-then-rename so a crash mid-write cannot leave a torn entry"
\* (ResponseCache.put), and a stored answer stays to be found: so it is for
\* every key that no two processes store at the same time.
EntriesAtomic ==
    /\ [](\A k \in Keys : Torn(k) => k \in raced)
    /\ [][\A k \in Keys : Found(k) /\ ~Found(k)' => k \in raced']_vars

\* What a run reports as its cost is what the provider charged, each answer
\* once: a hit costs nothing, and a paid answer is lost only to a kill, a full
\* disk or another process that stores the same key.
PaidReportedOnce ==
    /\ charged = reported + lost + CostOf(Storing)
    /\ lost > 0 => kills + faults > 0 \/ raced # {}

\* The cache changes neither the answers of a run nor its bill, and no file
\* stays open.
AnswersSound == TypeOK /\ ServedWhole /\ PaidReportedOnce
=============================================================================
