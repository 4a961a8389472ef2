--------------------------- MODULE MCGovernedTask ---------------------------
(* Values for the constants of Planning and GovernedTask, for TLC.         *)
(* Profile 1 is a business profile, 2 the framework maintainer, 3 the      *)
(* wiki owner.                                                             *)
EXTENDS Planning

MCCharacters == [data |-> 8, specs |-> 15, profiles |-> 8, config |-> 11,
                 skills |-> 6, SKILL |-> 8, cron |-> 4, jobs |-> 9, flow |-> 3,
                 Flow |-> 4, wiki |-> 4, index |-> 5, x |-> 2]

Specs == <<"data", "specs">>

Below(dir) == [dir |-> dir, below |-> TRUE]
Exactly(path) == [dir |-> path, below |-> FALSE]

Rule(match, owner) == [match |-> match, owner |-> owner, allowed |-> {},
                       delegate |-> None, warn |-> FALSE]

\* The two rules of the bundled file that name two owners.
Framework == Rule({Below(Specs), Below(<<"data", "profiles">>),
                   Exactly(<<"data", "config">>)}, 2)
Wiki == [Rule({Below(<<"wiki">>)}, 3) EXCEPT !.allowed = {3}, !.delegate = 3]
Bundled == <<Framework, Wiki>>

\* One flow, and a short name, handed to the business profile; the wiki
\* shared, and rules for its index that only warn.
Exceptions ==
  <<Rule({Below(<<"data">>), Exactly(<<"wiki", "x">>)}, 3), Framework,
    Rule({Exactly(Specs \o <<"flow">>)}, 1),
    [Wiki EXCEPT !.allowed = {2, 3}],
    [Wiki EXCEPT !.match = {Exactly(<<"wiki", "index">>)}, !.warn = TRUE,
                 !.allowed = {1}]>>

\* The wiki owner may write everything, but specs go to the maintainer.
Delegated ==
  <<[Framework EXCEPT !.allowed = {3}, !.delegate = 2],
    [Wiki EXCEPT !.allowed = {1, 3}, !.match = {Below(<<>>)}]>>

AllConfigs == {Bundled, Exceptions, Delegated}

Flow == Specs \o <<"flow">>
FlowDir == Specs \o <<"", "flow", "">>
Index == <<"wiki", "index">>
Short == <<"wiki", "x">>
Free == <<"index">>
Root == <<"">>

Request(actor, planned) ==
  [permissions |-> {"read"}, approved |-> FALSE, actor |-> actor,
   planned |-> planned, strict |-> FALSE]

Gate == [Request(None, {Flow}) EXCEPT !.permissions = {"docs_write"}]

\* One path is written in two ways, and there are paths of two owners.
AllRequests ==
  {Request(None, {FlowDir}), Request(1, {Flow}), Request(1, {Flow, Index}),
   Request(3, {Index, Short}), [Request(2, {Free, Root}) EXCEPT !.strict = TRUE],
   Gate, [Gate EXCEPT !.approved = TRUE]}

ZeroOrOne == {0, 1}

Call(actor, changed) == [actor |-> actor, changed |-> changed, strict |-> FALSE]

\* The last one, in strict mode, adds a path no rule names.
AllCalls == {NoArguments, Call(2, {Flow}),
             [Call(None, {Free}) EXCEPT !.strict = TRUE]}

Funded == [limit |-> 2, used |-> 0, threshold |-> 2]
Spent == [limit |-> 2, used |-> 1, threshold |-> 2]
BothBudgets == {Funded, Spent}

Capability(id, priority, cost, reliability, owner) ==
  [id |-> id, priority |-> priority, cost |-> cost,
   reliability |-> reliability, owner |-> owner]

\* The wiki twice and the media once, as they are registered; then the same
\* at other prices.
Registered ==
  <<{Capability("media", 75, "medium", "medium", TRUE)},
    {Capability("wiki", 90, "medium", "low", TRUE)},
    {Capability("wiki", 90, "low", "high", TRUE), Capability("lint", 95, "low", "high", TRUE)}>>

Prices ==
  <<{Capability("wiki", 20, "free", "low", FALSE), Capability("media", 20, "high", "", FALSE)},
    {Capability("wiki", 20, "low", "high", FALSE), Capability("media", 20, "medium", "low", FALSE)},
    {Capability("wiki", 20, "low", "medium", FALSE)}>>

Unknown ==
  <<{Capability("wiki", 0, "", "", FALSE)}, {Capability("media", 0, "high", "", FALSE)},
    {Capability("lint", 0, "", "low", TRUE)}>>

MCRegistries == {Registered, Prices, Unknown}

MCRoutingTasks ==
  {[required |-> {"wiki"}, named |-> {}, described |-> {"wiki", "lint"}],
   [required |-> {}, named |-> {"media"}, described |-> {"media"}],
   [required |-> {}, named |-> {}, described |-> {}]}

MCSlugs == {"flow", "x"}

Operation(on, actor, profile, skill, workflow, changed) ==
  [on |-> on, actor |-> actor, profile |-> profile, skill |-> skill,
   workflow |-> workflow, changed |-> changed, strict |-> FALSE]

\* With and without what the operation needs, with paths of its own and
\* others, and by another profile.
MCOperations ==
  {Operation(on, 2, None, None, None, {Flow}) : on \in {"profile", "gateway"}}
  \union {Operation("gateway", 2, profile, None, None, {}) : profile \in {"flow", "Flow"}}
  \union {Operation("skill", 2, "flow", skill, None, {Index}) : skill \in {None, "x"}}
  \union {Operation("workflow", 2, None, None, workflow, {Flow}) : workflow \in {None, "x"}}
  \union {Operation("cron", actor, None, None, None, {}) : actor \in {1, 2}}
  \union {Operation("model", 2, None, None, None, {}),
          [Operation("cron", 2, None, None, None, {}) EXCEPT !.strict = TRUE]}
=============================================================================
