----------------------------- MODULE MCAutoBuild -----------------------------
(* A small instance of AutoBuild: two HTML files with a TypeScript snippet   *)
(* each; three TypeScript files; a JavaScript file compiled from one of them *)
(* and two that are not; one extern; and two projects.  p1 is the more       *)
(* deeply nested one, and only refers to t2, which p2 includes.              *)
EXTENDS AutoBuild, TLC

CONSTANTS h1, h2, s1, s2, t1, t2, t3, j1, j2, j3, x1, p1, p2

MCFile == {h1, h2, s1, s2, t1, t2, t3, j1, j2, j3, x1}
MCOrder == <<h1, s1, t2, h2, s2, t1, t3, j1, j2, j3, x1>>
MCProject == {p1, p2}
MCTsConfigs == <<p1, p2>>
MCHtml == {h1, h2}
MCTypeScript == {t1, t2, t3}
MCSnippet == {s1, s2}
MCExtern == {x1}
MCDerivedFrom == [f \in MCFile |-> IF f = j3 THEN {t1} ELSE {}]
MCBatches == {Sorted(S) : S \in SUBSET (MCTypeScript \cup MCSnippet)}

\* s2 and t3 are in no project; t1 is in no inclusion pattern.
MCOwn == (p1 :> {s1}) @@ (p2 :> {t2})
MCProgram == (p1 :> {s1, t1, t2}) @@ (p2 :> {t2, t1})

MCSnippetOf == (h1 :> s1) @@ (h2 :> s2)

AllDifferent == [f \in MCFile |-> f]
HtmlAlike == [f \in MCFile |-> IF f \in MCHtml THEN h1 ELSE f]
JsAlike == [f \in MCFile |-> IF f = j2 THEN j1 ELSE f]
=============================================================================
