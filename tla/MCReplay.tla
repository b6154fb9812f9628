------------------------------ MODULE MCReplay ------------------------------
(***************************************************************************)
(* Instance of an attempt and its replay for TLC: a file with one bug, one *)
(* with two, one that is not UTF-8 and one that is missing; two steps of   *)
(* at most two calls; every single call, and every pair of those that      *)
(* change or end something.  Code that the tests run may leave a file that *)
(* is not UTF-8, or one with a bug.                                        *)
(***************************************************************************)
EXTENDS Replay

MCInitialFiles == [a |-> <<"bug">>, b |-> <<"bug", "bug">>, bin |-> Binary, new |-> Absent]
MCSolved == [a |-> <<"fix">>]

MCLeavings == {Binary, <<"bug">>}

MCWords == {"bug", "fix", "u2028", "", "pwned", "note", "reviewed"}

Plain(tool) == [tool |-> tool]
Read(p) == [tool |-> "read_file", path |-> p]
Write(p, text) == [tool |-> "write_file", path |-> p, contents |-> text]
Replace(p, old, new) == [tool |-> "replace_text", path |-> p, old |-> old, new |-> new]

Singles ==
    {Plain("list_files"), Read("a"), Read("bin"), Read("new"), Read("out"),
     Write("bin", <<"fix">>), Write("a", <<"fix", "u2028">>),
     Write("out", <<"fix">>),
     Replace("a", "", "fix"), Replace("b", "bug", "fix"), Replace("out", "bug", "fix")}

Paired ==
    {Plain("run_tests"), Plain("submit"), Plain("unusable"),
     Write("a", <<"fix">>), Write("new", <<"bug">>), Replace("a", "bug", "fix")}

\* The policies of POLICIES by what they do to the case, and one that edits
\* blind; cases whose target is missing or not UTF-8.
Idle == [repairs_everything |-> FALSE, repairs |-> {}, botches |-> {}, redundant_reads |-> 0,
         scope_creep |-> FALSE, read_before_edit |-> TRUE, escape_attempts |-> <<>>,
         bug_kind |-> "off_by_one", target |-> "a"]
Botcher == [Idle EXCEPT !.botches = {"off_by_one"}]
MCControls ==
    {Idle, Botcher,
     [Idle EXCEPT !.repairs_everything = TRUE],
     [Idle EXCEPT !.repairs = {"off_by_one"}, !.botches = {"off_by_one"}],
     [Botcher EXCEPT !.redundant_reads = 2, !.scope_creep = TRUE],
     [Botcher EXCEPT !.read_before_edit = FALSE],
     [Botcher EXCEPT !.bug_kind = "none_check"],
     [Idle EXCEPT !.repairs_everything = TRUE, !.escape_attempts = <<"out", "new">>]}
    \cup {[Botcher EXCEPT !.target = t] : t \in {"new", "bin"}}
    \cup {[Idle EXCEPT !.repairs_everything = TRUE, !.target = "new"]}

MCSeparators == {"u2028"}

MCResponses ==
    {<<>>} \cup {<<c>> : c \in Singles \cup Paired} \cup {<<c, d>> : c, d \in Paired}
=============================================================================
