---------------------------- MODULE DatasetFiles ----------------------------
(***************************************************************************)
(* A dataset and the directory that holds it (datasets/, schema/dataset.py *)
(* and the commands `dataset build`, `dataset verify` and `run` of         *)
(* cli/main.py): cases.jsonl, then manifest.json, written in place by      *)
(* whoever builds, edited by people, and read meanwhile.                   *)
(*                                                                         *)
(* A file is a sequence of blocks, and a line of it is two blocks, so that *)
(* it can be cut in the middle of a line.  Opening for writing truncates;  *)
(* a writer goes on at its own offset, whatever others do to the file.  A  *)
(* block is written at once, and a file read at once.  A content hash is   *)
(* what it is a hash of.  The source of a task is its kind and its word.   *)
(***************************************************************************)
EXTENDS Integers, FiniteSetsExt, SequencesExt

CONSTANTS
    Builders,   \* processes that run `dataset build`
    Readers,    \* processes that load the dataset or verify it
    Orders,     \* what may be built: [name, version, count, seed]
    Versions,   \* versions that readers ask for and editors write
    Kinds,      \* bug kinds of TEMPLATES, in order
    Words,      \* by seed, MODULE_WORDS as random.Random(seed) shuffles them
    MaxCount,   \* bound of the model on the datasets that are generated
    MaxEdits    \* bound of the model on edits by hand

\* The catalogue names no kind twice, and a shuffle loses and repeats no word.
ASSUME CatalogueAssumption ==
    /\ Kinds \in Seq(Range(Kinds)) /\ Kinds # <<>> /\ IsInjective(Kinds)
    /\ \A seed \in DOMAIN Words :
        LET words == Words[seed]
        IN words \in Seq(Range(words)) /\ words # <<>> /\ IsInjective(words)
    /\ \A order \in Orders : order.count \in Int
    /\ MaxCount \in Nat /\ MaxEdits \in Nat

VARIABLES
    dir,        \* contents of the files that exist
    builder,    \* where each builder stands, with what it writes
    reader,     \* where each reader stands, with what it asked, holds and got
    edits,
    built,      \* history: the datasets whose writing began, the last one at the end
    spoiled     \* history: what is there may not be what was built last

files == <<dir, builder, reader, edits, built, spoiled>>

-----------------------------------------------------------------------------
\* Cycling the catalogue, and the shuffled words beside it.
Case(order, i) ==
    [kind |-> Kinds[((i - 1) % Len(Kinds)) + 1],
     word |-> Words[order.seed][((i - 1) % Len(Words[order.seed])) + 1],
     number |-> i]

\* build_synthetic_dataset: the description tells the count and the seed.
Generate(order) ==
    [name |-> order.name, version |-> order.version,
     description |-> <<order.count, order.seed>>,
     cases |-> [i \in 1 .. order.count |-> Case(order, i)]]

\* DatasetManifest.for_dataset.
Manifest(d) ==
    [name |-> d.name, version |-> d.version, description |-> d.description, hash |-> d]

Hole == [of |-> <<>>, half |-> 0]
Lines(xs) == [i \in 1 .. 2 * Len(xs) |-> [of |-> xs[(i + 1) \div 2], half |-> 2 - (i % 2)]]

\* What write_dataset writes into each file.
Text(d, f) == Lines(IF f = "cases" THEN d.cases ELSE <<Manifest(d)>>)

Parsed(text) == [i \in 1 .. Len(text) \div 2 |-> text[2 * i].of]
Parses(text) == text # <<>> /\ text = Lines(Parsed(text))
Readable(f) == f \in DOMAIN dir /\ Parses(dir[f])

\* read_manifest, where it does not raise.
Found == Head(Parsed(dir["manifest"]))

\* The Dataset that read_dataset makes of a manifest and the cases.
Assembled(manifest) ==
    [name |-> manifest.name, version |-> manifest.version,
     description |-> manifest.description, cases |-> Parsed(dir["cases"])]

-----------------------------------------------------------------------------
NoDataset == [cases |-> <<>>]
NoManifest == [hash |-> NoDataset]
NobodyAsked == [by |-> "path"]

Standing(pc) == [pc |-> pc, dataset |-> NoDataset, at |-> 0]

FilesInit ==
    /\ dir = <<>>
    /\ builder = [b \in Builders |-> Standing("idle")]
    /\ reader = [r \in Readers |->
        [pc |-> "idle", asked |-> NobodyAsked, held |-> NoManifest, got |-> NoDataset,
         moved |-> FALSE, disturbed |-> FALSE]]
    /\ edits = 0
    /\ built = <<>>
    /\ spoiled = FALSE

Writing == {b \in Builders : builder[b].pc \in {"cases", "manifest"}}

\* The directory changes under those who read it; `moved` is the manifest alone.
Change(f, text) ==
    /\ dir' = [g \in DOMAIN dir \cup {f} |-> IF g = f THEN text ELSE dir[g]]
    /\ reader' = [r \in Readers |->
        IF reader[r].pc = "idle" THEN reader[r]
        ELSE [reader[r] EXCEPT !.moved = @ \/ f = "manifest", !.disturbed = TRUE]]

\* dataset_build: refused where a dataset is, generated in memory otherwise.
StartBuild(b, order, force) ==
    /\ builder[b].pc = "idle"
    /\ builder' = [builder EXCEPT ![b] =
        IF ("cases" \in DOMAIN dir /\ ~force) \/ order.count < 1 THEN Standing("refused")
        ELSE [pc |-> "generated", dataset |-> Generate(order), at |-> 0]]
    /\ UNCHANGED <<dir, reader, edits, built, spoiled>>

\* write_text opens cases.jsonl.
OpenCases(b) ==
    LET d == builder[b].dataset
    IN
    /\ builder[b].pc = "generated"
    /\ Change("cases", <<>>)
    /\ builder' = [builder EXCEPT ![b].pc = "cases", ![b].at = 0]
    /\ built' = Append(built, d)
    /\ spoiled' = IF Writing = {} THEN FALSE
                  ELSE spoiled \/ \E c \in Writing : builder[c].dataset # d
    /\ UNCHANGED edits

Put(text, at, block) ==
    [i \in 1 .. Max({Len(text), at}) |->
        IF i = at THEN block ELSE IF i \in DOMAIN text THEN text[i] ELSE Hole]

\* It writes on, in either file.
WriteOn(b) ==
    LET f == builder[b].pc
        text == Text(builder[b].dataset, f)
        at == builder[b].at + 1
    IN
    /\ b \in Writing /\ at \in DOMAIN text
    /\ Change(f, Put(dir[f], at, text[at]))
    /\ builder' = [builder EXCEPT ![b] =
        IF f = "manifest" /\ at = Len(text) THEN Standing("done") ELSE [@ EXCEPT !.at = at]]
    /\ UNCHANGED <<edits, built, spoiled>>

\* The cases are written: the manifest is opened.
OpenManifest(b) ==
    /\ builder[b].pc = "cases"
    /\ builder[b].at = Len(Text(builder[b].dataset, "cases"))
    /\ Change("manifest", <<>>)
    /\ builder' = [builder EXCEPT ![b].pc = "manifest", ![b].at = 0]
    /\ UNCHANGED <<edits, built, spoiled>>

\* A kill, or a full disk: nothing is taken back.
StopBuild(b) ==
    /\ b \in Writing
    /\ builder' = [builder EXCEPT ![b] = Standing("stopped")]
    /\ spoiled' = TRUE
    /\ UNCHANGED <<dir, reader, edits, built>>

\* Somebody edits a case, or the version in the manifest.
EditedText(f, v) ==
    Lines([Parsed(dir[f]) EXCEPT ![1] =
        IF f = "cases" THEN [kind |-> "edited", word |-> v, number |-> 1]
        ELSE [@ EXCEPT !.version = v]])

Edit(f, v) ==
    /\ edits < MaxEdits /\ Readable(f)
    /\ EditedText(f, v) # dir[f]
    /\ edits' = edits + 1
    /\ Change(f, EditedText(f, v))
    /\ spoiled' = TRUE
    /\ UNCHANGED <<builder, built>>

-----------------------------------------------------------------------------
\* A reader ends, with the dataset that it accepts or without one.
End(r, pc, d) == reader' = [reader EXCEPT ![r].pc = pc, ![r].got = d, ![r].held = NoManifest]

\* resolve_dataset of a path or of name@version, or verify_dataset.
Ask(r, how) ==
    /\ reader[r].pc = "idle"
    /\ reader' = [reader EXCEPT ![r].asked = how, ![r].moved = FALSE,
        ![r].disturbed = spoiled \/ Writing # {},
        ![r].pc = IF how.by = "path" THEN "resolved" ELSE "asked"]
    /\ UNCHANGED <<dir, builder, edits, built, spoiled>>

\* The first look at the manifest: is it the version, and what is its hash.
Resolve(r) ==
    LET how == reader[r].asked
        right == Readable("manifest") /\ (how.by = "ref" => Found.version = how.version)
    IN
    /\ reader[r].pc = "asked"
    /\ IF right THEN reader' = [reader EXCEPT ![r].pc = "resolved", ![r].held = Found]
       ELSE End(r, "error", NoDataset)
    /\ UNCHANGED <<dir, builder, edits, built, spoiled>>

\* read_dataset reads the manifest, the first time or again.
ReadManifest(r) ==
    /\ reader[r].pc = "resolved"
    /\ IF Readable("manifest")
       THEN reader' = [reader EXCEPT ![r].pc = "reading", ![r].got = Found,
                ![r].held = IF reader[r].asked.by = "verify" THEN @ ELSE Found]
       ELSE End(r, "error", NoDataset)
    /\ UNCHANGED <<dir, builder, edits, built, spoiled>>

\* Mutant: the contents are taken as they are.
AcceptedUnverified(d, expected) == TRUE

\* read_dataset and verify_dataset compare the hash of the contents with that
\* of a manifest: the one just read, or the one read first.
Accepted(d, expected) == d = expected.hash

ReadCases(r) ==
    LET d == Assembled(reader[r].got)
    IN
    /\ reader[r].pc = "reading"
    /\ IF ~Readable("cases") THEN End(r, "error", NoDataset)
       ELSE IF Accepted(d, reader[r].held)
       THEN End(r, "accepted", d)
       ELSE End(r, "drift", NoDataset)
    /\ UNCHANGED <<dir, builder, edits, built, spoiled>>

Requests == {[by |-> "path"], [by |-> "verify"]} \cup [by : {"ref"}, version : Versions]

FilesNext ==
    \/ \E b \in Builders :
        \/ \E order \in Orders, force \in BOOLEAN : StartBuild(b, order, force)
        \/ OpenCases(b) \/ WriteOn(b) \/ OpenManifest(b) \/ StopBuild(b)
    \/ \E f \in DOMAIN dir, v \in Versions : Edit(f, v)
    \/ \E r \in Readers :
        (\E how \in Requests : Ask(r, how)) \/ Resolve(r) \/ ReadManifest(r) \/ ReadCases(r)

-----------------------------------------------------------------------------
\* A dataset that is used, or called ok, is exactly one that was asked for:
\* no mixture of two builds, no part of one, no edit.
OnlyBuilt ==
    \A r \in Readers : reader[r].pc = "accepted" => reader[r].got \in Range(built)

\* "a run that claims a dataset version cannot quietly have used another"
\* (registry.py:4), as long as nobody wrote the manifest between its two
\* readings.
VersionHonoured ==
    \A r \in Readers :
        reader[r].pc = "accepted" /\ reader[r].asked.by = "ref" /\ ~reader[r].moved =>
            reader[r].got.version = reader[r].asked.version

\* What a directory answers that nobody is changing.
Promised(how) ==
    IF built = <<>> \/ (how.by = "ref" /\ Last(built).version # how.version)
    THEN [pc |-> "error", got |-> NoDataset]
    ELSE [pc |-> "accepted", got |-> Last(built)]

\* Whoever reads undisturbed what the last build left gets it, all of it and
\* without a false alarm - also where several built the same thing at once.
UndisturbedAnswer ==
    \A r \in Readers :
        reader[r].pc \in {"accepted", "drift", "error"} /\ ~reader[r].disturbed =>
            [pc |-> reader[r].pc, got |-> reader[r].got] = Promised(reader[r].asked)

\* "so bug kinds stay balanced": no kind has two cases more than another, the
\* ids differ, and tasks repeat only once every combination that the two
\* cycles meet has been used.
GenerationBalanced ==
    \A seed \in DOMAIN Words, count \in 1 .. MaxCount :
        LET order == [name |-> "synth", version |-> "v1", count |-> count, seed |-> seed]
            cases == Generate(order).cases
            Of(kind) == {i \in DOMAIN cases : cases[i].kind = kind}
            tasks == {<<c.kind, c.word>> : c \in Range(cases)}
            cycle == Min({n \in 1 .. Len(Kinds) * Len(Words[seed]) :
                            n % Len(Kinds) = 0 /\ n % Len(Words[seed]) = 0})
        IN /\ \A k, l \in Range(Kinds) : Cardinality(Of(k)) <= Cardinality(Of(l)) + 1
           /\ IsInjective([i \in DOMAIN cases |-> <<cases[i].kind, cases[i].number>>])
           /\ Cardinality(tasks) = Min({count, cycle})

\* io.py, registry.py: what is loaded from a directory that others write, edit
\* and leave half written is what somebody built, of the version asked for, and
\* there is no refusal without a reason; builder.py generates what it says.
DatasetSound == OnlyBuilt /\ VersionHonoured /\ UndisturbedAnswer /\ GenerationBalanced
=============================================================================
