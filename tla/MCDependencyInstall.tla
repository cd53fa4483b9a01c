------------------------ MODULE MCDependencyInstall ------------------------
(* DependencyInstall with the hosts it is checked on: every context on a    *)
(* host that has everything its plan needs, and, for one context of each    *)
(* kind of plan, the hosts that differ from an ample one in one respect.    *)
EXTENDS DependencyInstall

Ample == [glibc |-> 31, tools |-> {"nvcc", "cxx", "openmp", "msvc"}, device |-> "reported",
          inventory |-> CHOOSE wheel \in Wheels : TRUE, cached |-> {},
          constraints |-> "absent", missing |-> {}, snapshot |-> FALSE,
          shared |-> FALSE, models |-> 2, extension |-> 1]

MCContexts ==
  {[system |-> machine[1], arch |-> machine[2], abi |-> abi, accelerator |-> accelerator,
    sm |-> sm, hint |-> hint, profile |-> profile] :
     machine \in {<<"linux", "x64">>, <<"linux", "arm64">>, <<"win32", "x64">>,
                  <<"win32", "arm64">>, <<"darwin", "arm64">>},
     abi \in ABIs, accelerator \in {"cuda", "cpu"}, sm \in {0, 75, 80, 90, 100},
     hint \in {0, 124, 126, 128}, profile \in Profiles}

Usual(c) ==
  /\ c.abi = "cp311" /\ c.accelerator = "cuda" /\ c.hint = 0 /\ c.profile # "auto"
  /\ c.sm = IF c.arch = "arm64" THEN 100 ELSE 90

MCHosts ==
  {[Ample EXCEPT !.glibc = minor] : minor \in {27, 28}}
    \cup {[Ample EXCEPT !.tools = @ \ {tool}] : tool \in Ample.tools}
    \cup {[Ample EXCEPT !.inventory = Absent], [Ample EXCEPT !.device = "other"]}
    \cup {[Ample EXCEPT !.cached = Wheels], [Ample EXCEPT !.constraints = "altered"]}
    \cup {[Ample EXCEPT !.missing = {name}] : name \in {"base", "sparse", "flash_attn"}}
    \cup {[Ample EXCEPT !.snapshot = present, !.models = models, !.extension = extension] :
            present \in BOOLEAN, models \in 0..2, extension \in 0..1}
    \cup {[Ample EXCEPT !.snapshot = present, !.models = models, !.shared = TRUE] :
            present \in BOOLEAN, models \in 0..3}

MCStarts ==
  {<<c, [Ample EXCEPT !.tools = IF Profile(c) = "portable" THEN {} ELSE @]>> : c \in MCContexts}
    \cup {<<c, h>> : c \in {d \in MCContexts : Usual(d)}, h \in MCHosts}
=============================================================================
