----------------------------- MODULE AttachmentGraph -----------------------------
(***************************************************************************)
(* What a removal takes with it: plasmosome-core/src/closure.rs.  Plugins   *)
(* attach after the providers they require, by name or only as a provider.  *)
(* removal_closure, with its two loops, is checked at every graph that      *)
(* attaching can build against what the removal of a plugin should take.    *)
(***************************************************************************)
EXTENDS Naturals, FiniteSets

CONSTANT Plugins

ASSUME GraphAssumption == IsFiniteSet(Plugins)

VARIABLES
    providers,  \* what each attached plugin requires directly
    named       \* the attached plugins that were asked for by name

graphVars == <<providers, named>>

GraphInit == providers = [p \in {} |-> {}] /\ named = {}

Attached == DOMAIN providers

attach(plugin, required, by_name) ==
    /\ plugin \notin Attached
    /\ required \subseteq Attached
    /\ providers' = [p \in Attached \cup {plugin} |-> IF p = plugin THEN required ELSE providers[p]]
    /\ named' = IF by_name THEN named \cup {plugin} ELSE named

requirers(provider) == {p \in Attached : provider \in providers[p]}

stranded_by(root) == requirers(root)

(* The first loop: root and its requirers, to the last.                     *)
requiring(root) ==
    LET visited[n \in 0..Cardinality(Attached)] ==
            IF n = 0 THEN {root}
            ELSE visited[n - 1] \cup UNION {requirers(p) : p \in visited[n - 1]}
    IN visited[Cardinality(Attached)]

(* The providers of what is taken that nobody named and nothing else        *)
(* requires.                                                                *)
orphans(taken) ==
    {p \in UNION {providers[member] : member \in taken} :
        p \notin taken \cup named /\ requirers(p) \subseteq taken}

(* Mutant: the providers of what is taken are looked at once.               *)
removal_closure_OneRound(root) == requiring(root) \cup orphans(requiring(root))

(* Both loops, the second round by round.                                   *)
removal_closure(root) ==
    LET taken[n \in 0..Cardinality(Attached)] ==
            IF n = 0 THEN requiring(root) ELSE taken[n - 1] \cup orphans(taken[n - 1])
    IN taken[Cardinality(Attached)]

GraphNext ==
    \E plugin \in Plugins, required \in SUBSET Attached, by_name \in BOOLEAN :
        attach(plugin, required, by_name)

GraphSpec == GraphInit /\ [][GraphNext]_graphVars

----------------------------------------------------------------------------
(* Properties                                                               *)

(* A removal that takes these plugins leaves no plugin without a provider,  *)
(* and no provider that was only there for a plugin it took.                *)
Clean(taken) ==
    /\ \A p \in Attached \ taken : providers[p] \cap taken = {}
    /\ \A p \in Attached \ (taken \cup named) :
          (\E member \in taken : p \in providers[member]) =>
             \E q \in Attached \ taken : p \in providers[q]

(* removal_closure takes the least set that holds root and leaves a clean   *)
(* graph; and when stranded_by lets a removal go ahead, the plugins that    *)
(* were asked for by name all stay, except root.                            *)
RemovalIsLeast ==
    \A root \in Attached :
        LET taken == removal_closure(root) IN
        /\ root \in taken /\ Clean(taken)
        /\ \A other \in SUBSET Attached : root \in other /\ Clean(other) => taken \subseteq other
        /\ stranded_by(root) = {} => taken \cap named \subseteq {root}
=============================================================================
