---------------------------- MODULE MC_Workspace ----------------------------
(***************************************************************************)
(* A root project "r" over a dependency "d", whose root module may name a  *)
(* second module, Part; or "r" over "m" over "d".                          *)
(***************************************************************************)
EXTENDS WorkspaceKeys, TLC

MC_Texts == {"value", "renamed", "wider", "import", "part", "other",
             "link", "open", "root"}
MC_Modules ==
    [text \in MC_Texts |-> IF text = "import" THEN {"Part"} ELSE {}]
MC_Opens == [text \in MC_Texts |-> text \in {"open", "root"}]
\* Renaming what is private changes no interface.
MC_Sig == [text \in MC_Texts |-> IF text = "renamed" THEN "value" ELSE text]

MC_Projects == {"d", "m", "r"}
FilesWith(main, part, between, root) ==
    "d.main" :> main @@ "Part" :> part @@ "m.main" :> between @@ "r.main" :> root
MC_ProjectOf == FilesWith("d", "d", "m", "r")
MC_Files == DOMAIN MC_ProjectOf
MC_Main == "d" :> "d.main" @@ "m" :> "m.main" @@ "r" :> "r.main"

TextsOfTwo(main) == FilesWith(main, "part", Absent, "root")
ChangesOfTwo(main, part) == FilesWith(main, part, {}, {})
Unchanging == ChangesOfTwo({}, {})
Changes == ChangesOfTwo({"value", "renamed", "import"}, {"part", "other"})
Removals == ChangesOfTwo({"import", "value", Absent}, {"part", Absent})
Endings == ChangesOfTwo({"value", Absent}, {"part", Absent})

Two(cacheable, texts, changes) ==
    [order |-> <<"d", "r">>, deps |-> "d" :> {} @@ "r" :> {"d"},
     cacheable |-> cacheable, disk |-> texts,
     overlays |-> FilesWith(None, None, None, "root"),
     saves |-> changes, typings |-> Unchanging,
     budget |-> [saves |-> 2, typings |-> 0, cancels |-> 0, asks |-> 0,
                 losses |-> 0, restarts |-> 0]]

\* Sources are saved, and typed over.
Saved == [Two({"d"}, TextsOfTwo("value"), Changes) EXCEPT !.budget.cancels = 1]
Typed == [Two({"d"}, TextsOfTwo("import"), Changes) EXCEPT
            !.typings = ChangesOfTwo({"value", "import", None}, {}),
            !.budget.saves = 1, !.budget.typings = 2]
\* Requests look into the dependency, and the server is started again.
Asked == [Two({"d"}, TextsOfTwo("import"), Changes) EXCEPT
            !.budget.saves = 1, !.budget.cancels = 1, !.budget.asks = 2,
            !.budget.restarts = 1]
\* Modules come and go, of a dependency that is not cacheable.
Removed == [Two({}, TextsOfTwo("import"), Removals) EXCEPT !.budget.cancels = 1]
\* What the project in the middle exports is typed by what it imports, or not.
Three == [Two({"d", "m"}, FilesWith("value", Absent, "open", "root"),
              FilesWith({"value", "renamed", "wider"}, {}, {"link", "open"}, {}))
            EXCEPT !.order = <<"d", "m", "r">>,
                   !.deps = "d" :> {} @@ "m" :> {"d"} @@ "r" :> {"m"},
                   !.budget.cancels = 1]
MC_Scripts == {Saved, Typed, Asked, Removed, Three}

\* For liveness: all events arrive, or one is lost.
Prompt == [Two({}, TextsOfTwo("import"), Endings) EXCEPT
             !.budget.saves = 1, !.budget.cancels = 1]
Lossy == [Two({}, TextsOfTwo("import"), Endings) EXCEPT !.budget.losses = 1]
SettleScripts == {Prompt, Lossy}
=============================================================================
