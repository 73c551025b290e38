---------------------------- MODULE VideoTemplates ----------------------------
(* The registry of video templates (domain/video_templates.py) and the        *)
(* policies that switch its parts off for new batches                         *)
(* (application/video_registry.py, infrastructure/video_registry_repository). *)
(* One template is registered; its presets cannot be switched.                *)
EXTENDS Naturals, FiniteSets, Sequences

CONSTANTS
    Operators,   \* requests in flight
    Modules,     \* scene modules of the template
    Variants,    \* scene variants of the template
    ModuleOf,    \* the module of each variant
    Defaults,    \* the default variant of each module
    Template,    \* the template itself
    MaxVersion,  \* bound: versions of a policy
    NoKey

\* The keys are told apart, and the template as it is registered names a
\* default variant of each of its modules (TemplateDefinition).
ASSUME TemplateShape ==
    /\ Template \notin Modules \cup Variants /\ Modules \cap Variants = {}
    /\ \A m \in Modules : Defaults[m] \in Variants /\ ModuleOf[Defaults[m]] = m

VARIABLES
    policy,     \* per key: the stored policy
    events,     \* per key: the policy events, in the order they were committed
    change,     \* per operator: the change being made
    resolving,  \* the template as read for a batch being created, or {}
    frozen      \* the variants in the template of the last batch

templateVars == <<policy, events, change, resolving, frozen>>

RegistryKeys == {Template} \cup Modules \cup Variants
NoChange == [key |-> NoKey, enabled |-> TRUE, expected |-> 1, step |-> "idle"]

TemplateInit ==
    /\ policy = [k \in RegistryKeys |-> [enabled |-> TRUE, version |-> 1]]
    /\ events = [k \in RegistryKeys |-> <<>>]
    /\ change = [o \in Operators |-> NoChange]
    /\ resolving = {}
    /\ frozen = {}

----------------------------------------------------------------------------
(* VideoRegistryService.view: policies read once, and what follows from them. *)

\* Fault: a template depends on its modules alone.
DependenciesOnModules(key) ==
    IF key = Template THEN Modules
    ELSE IF key \in Variants THEN {ModuleOf[key]} ELSE {}

\* A variant needs its module; the template its modules and default variants.
Dependencies(key) ==
    IF key = Template THEN Modules \cup {Defaults[m] : m \in Modules}
    ELSE IF key \in Variants THEN {ModuleOf[key]} ELSE {}

\* is_effective: dependencies are two deep.
Effective(key) ==
    /\ policy[key].enabled
    /\ \A d \in Dependencies(key) :
          policy[d].enabled /\ \A e \in Dependencies(d) : policy[e].enabled

----------------------------------------------------------------------------
(* set_policy, and set of the repository. *)

\* The view is read and the dependencies of what is enabled are checked.  The
\* operator decided on some version it has seen.
ChangeChecked(o) ==
    /\ change[o].step = "idle"
    /\ \E key \in RegistryKeys, enabled \in BOOLEAN : \E expected \in 1..policy[key].version :
          /\ expected < MaxVersion
          /\ enabled => \A d \in Dependencies(key) : Effective(d)
          /\ change' = [change EXCEPT ![o] = [key |-> key, enabled |-> enabled,
                                              expected |-> expected, step |-> "checked"]]
    /\ UNCHANGED <<policy, events, resolving, frozen>>

\* set reads the policy: another version is a conflict, the same setting is
\* left as it is.
ChangeRead(o) ==
    /\ change[o].step = "checked"
    /\ LET current == policy[change[o].key]
       IN  change' = [change EXCEPT ![o] =
              IF current.version = change[o].expected /\ current.enabled # change[o].enabled
              THEN [@ EXCEPT !.step = "read"] ELSE NoChange]
    /\ UNCHANGED <<policy, events, resolving, frozen>>

\* The statement that writes: an insert for version 1, otherwise an update of
\* the version that was expected.
Writes(c) == policy[c.key].version = c.expected

\* The transaction: the row and its event, or neither.
ChangeWritten(o) ==
    /\ change[o].step = "read"
    /\ LET c   == change[o]
           new == [enabled |-> c.enabled, version |-> c.expected + 1]
       IN  IF Writes(c)
           THEN /\ policy' = [policy EXCEPT ![c.key] = new]
                /\ events' = [events EXCEPT ![c.key] = Append(@, new)]
           ELSE UNCHANGED <<policy, events>>
    /\ change' = [change EXCEPT ![o] = NoChange]
    /\ UNCHANGED <<resolving, frozen>>

----------------------------------------------------------------------------
(* create of a batch: resolve_template_for_new_batch, and the template the    *)
(* batch keeps, whatever happens to the policies while it is directed.        *)

\* validate_template_references, when a stored batch is read: what the default
\* variants name is there, and of their module.  Taking variants out of a
\* template does not run it.
ValidTemplate(variants) ==
    \A m \in Modules : Defaults[m] \in variants /\ ModuleOf[Defaults[m]] = m

TemplateResolved ==
    /\ resolving = {}
    /\ Effective(Template)
    /\ resolving' = {v \in Variants : Effective(v)}
    /\ UNCHANGED <<policy, events, change, frozen>>

BatchCreated ==
    /\ resolving # {}
    /\ frozen' = {resolving}
    /\ resolving' = {}
    /\ UNCHANGED <<policy, events, change>>

BatchRefused ==
    /\ resolving # {}
    /\ resolving' = {}
    /\ UNCHANGED <<policy, events, change, frozen>>

TemplateNext ==
    \/ \E o \in Operators : ChangeChecked(o) \/ ChangeRead(o) \/ ChangeWritten(o)
    \/ TemplateResolved \/ BatchCreated \/ BatchRefused

TemplateSpec == TemplateInit /\ [][TemplateNext]_templateVars

----------------------------------------------------------------------------

(* The template a batch keeps has every default variant it names, so that the *)
(* batch can be read again, although variants are taken out of it.            *)
FrozenTemplateIsWhole == \A variants \in frozen : ValidTemplate(variants)

=============================================================================
