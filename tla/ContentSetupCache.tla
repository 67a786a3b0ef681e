-------------------------- MODULE ContentSetupCache --------------------------
(***************************************************************************)
(* The cache of one user's content templates in one workspace              *)
(* (backend/internal/services/project/contentsetup/cache.go, service.go).  *)
(*                                                                         *)
(* The list holds templates of the user and of the workspace.  Each scope  *)
(* has a generation in Redis that a new template raises after its          *)
(* transaction; a reader asks for one after the other and looks the list   *)
(* up under both.  The requests that miss share one computation of their   *)
(* process.  The list of brand profiles is the same with the workspace's   *)
(* generation alone.  What a scope holds is the number of its templates.   *)
(***************************************************************************)
EXTENDS Naturals

CONSTANTS
    Askers,
    MaxTemplates, \* bound of each scope
    NoTemplateList,
    NoGeneration  \* the key when Redis did not tell the generations

Scopes == {"user", "workspace"}

\* What a list holds of each scope, and its key.
TemplateLists == [Scopes -> 0 .. MaxTemplates]

ASSUME TemplateAssumption ==
    /\ MaxTemplates \in Nat
    /\ NoTemplateList \notin TemplateLists /\ NoGeneration \notin TemplateLists

VARIABLES
    templates,    \* committed, by scope
    generations,  \* the keys in Redis
    cached,       \* [generations -> list, or NoTemplateList]
    creating,     \* templates committed whose generation is not raised yet
    told,         \* history: the newest template of each scope that raised it
    computing,    \* [keys -> the computation under way]
    asker         \* [Askers -> phase, generations read, what was told when it came, answer]

templateVars == <<templates, generations, cached, creating, told, computing, asker>>

NoTemplate == [s \in Scopes |-> 0]

TemplateKeys == TemplateLists \cup {NoGeneration}

NoTemplateFlight == [phase |-> "none", list |-> NoTemplateList]

TemplateInit ==
    /\ templates = NoTemplate /\ generations = NoTemplate /\ told = NoTemplate
    /\ cached = [k \in TemplateLists |-> NoTemplateList]
    /\ creating = {}
    /\ computing = [k \in TemplateKeys |-> NoTemplateFlight]
    /\ asker = [r \in Askers |-> [phase |-> "new", key |-> NoTemplate, since |-> NoTemplate, got |-> NoTemplateList]]

CreateContentTemplate(s) ==
    /\ templates[s] < MaxTemplates
    /\ templates' = [templates EXCEPT ![s] = @ + 1]
    /\ creating' = creating \cup {<<s, templates'[s]>>}
    /\ UNCHANGED <<generations, cached, told, computing, asker>>

\* When Redis fails the error is dropped and nothing is told.
InvalidateContentTemplateOptionsCache(c) ==
    /\ creating' = creating \ {c}
    /\ \/ /\ generations' = [generations EXCEPT ![c[1]] = @ + 1]
          /\ told' = [told EXCEPT ![c[1]] = IF c[2] > @ THEN c[2] ELSE @]
       \/ UNCHANGED <<generations, told>>
    /\ UNCHANGED <<templates, cached, computing, asker>>

\* It expires, or deleteContentSetupOptionsCacheKeys finds it.
ListGoes(k) ==
    /\ cached[k] # NoTemplateList /\ cached' = [cached EXCEPT ![k] = NoTemplateList]
    /\ UNCHANGED <<templates, generations, creating, told, computing, asker>>

(***************************************************************************)
(* getCachedContentSetupOptions                                            *)
(***************************************************************************)

Ask(r) ==
    /\ asker[r].phase = "new"
    /\ asker' = [asker EXCEPT ![r].phase = "user", ![r].since = told]
    /\ UNCHANGED <<templates, generations, cached, creating, told, computing>>

ReadUserGeneration(r) ==
    /\ asker[r].phase = "user"
    /\ asker' = [asker EXCEPT ![r].phase = "workspace", ![r].key = [@ EXCEPT !["user"] = generations["user"]]]
    /\ UNCHANGED <<templates, generations, cached, creating, told, computing>>

\* Mutant: the key has the generation of the user alone.
KeyOfUserAlone(r) ==
    /\ asker[r].phase = "workspace"
    /\ asker' = [asker EXCEPT ![r].phase = "lookup"]
    /\ UNCHANGED <<templates, generations, cached, creating, told, computing>>

ReadWorkspaceGeneration(r) ==
    /\ asker[r].phase = "workspace"
    /\ asker' = [asker EXCEPT ![r].phase = "lookup",
                              ![r].key = [@ EXCEPT !["workspace"] = generations["workspace"]]]
    /\ UNCHANGED <<templates, generations, cached, creating, told, computing>>

\* Waits for the computation of its key, or starts it; without a generation it does not look again.
Wait(r, key) ==
    /\ asker' = [asker EXCEPT ![r].phase = "waiting", ![r].key = key]
    /\ computing' = [computing EXCEPT ![key] =
           IF @.phase # "none" THEN @
           ELSE [phase |-> IF key = NoGeneration THEN "only compute" ELSE "look", list |-> NoTemplateList]]

GenerationUnknown(r) ==
    /\ asker[r].phase \in {"user", "workspace"}
    /\ Wait(r, NoGeneration)
    /\ UNCHANGED <<templates, generations, cached, creating, told>>

Hit(r) ==
    /\ asker[r].phase = "lookup" /\ cached[asker[r].key] # NoTemplateList
    /\ asker' = [asker EXCEPT ![r].phase = "done", ![r].got = cached[asker[r].key]]
    /\ UNCHANGED <<templates, generations, cached, creating, told, computing>>

\* An error of the look-up counts as a miss.
Miss(r) ==
    /\ asker[r].phase = "lookup"
    /\ Wait(r, asker[r].key)
    /\ UNCHANGED <<templates, generations, cached, creating, told>>

cachedContentSetupOptions(k) ==
    /\ computing[k].phase = "look"
    /\ \/ cached[k] # NoTemplateList /\ computing' = [computing EXCEPT ![k] = [phase |-> "deliver", list |-> cached[k]]]
       \/ cached[k] = NoTemplateList /\ computing' = [computing EXCEPT ![k].phase = "compute"]
       \/ computing' = [computing EXCEPT ![k].phase = "only compute"]
    /\ UNCHANGED <<templates, generations, cached, creating, told, asker>>

computeContentTemplates(k) ==
    /\ computing[k].phase \in {"compute", "only compute"}
    /\ computing' = [computing EXCEPT ![k] =
           [phase |-> IF @.phase = "compute" THEN "store" ELSE "deliver", list |-> templates]]
    /\ UNCHANGED <<templates, generations, cached, creating, told, asker>>

\* The error of a write that fails is dropped.
refreshContentSetupOptionsCache(k) ==
    /\ computing[k].phase = "store"
    /\ cached' \in {cached, [cached EXCEPT ![k] = computing[k].list]}
    /\ computing' = [computing EXCEPT ![k].phase = "deliver"]
    /\ UNCHANGED <<templates, generations, creating, told, asker>>

DeliverTemplates(k) ==
    /\ computing[k].phase = "deliver"
    /\ asker' = [r \in Askers |->
           IF asker[r].phase = "waiting" /\ asker[r].key = k
           THEN [asker[r] EXCEPT !.phase = "done", !.got = computing[k].list] ELSE asker[r]]
    /\ computing' = [computing EXCEPT ![k] = NoTemplateFlight]
    /\ UNCHANGED <<templates, generations, cached, creating, told>>

TemplateNext ==
    \/ \E s \in Scopes : CreateContentTemplate(s)
    \/ \E c \in creating : InvalidateContentTemplateOptionsCache(c)
    \/ \E r \in Askers :
          \/ Ask(r) \/ ReadUserGeneration(r) \/ ReadWorkspaceGeneration(r) \/ GenerationUnknown(r)
          \/ Hit(r) \/ Miss(r)
    \/ \E k \in TemplateLists : ListGoes(k) \/ cachedContentSetupOptions(k) \/ refreshContentSetupOptionsCache(k)
    \/ \E k \in TemplateKeys : computeContentTemplates(k) \/ DeliverTemplates(k)

TemplateSpec == TemplateInit /\ [][TemplateNext]_templateVars

TemplateFlight == [phase : {"none", "look", "compute", "only compute", "store", "deliver"},
           list : TemplateLists \cup {NoTemplateList}]

(* The variables keep their types. *)
TemplateTypeOK ==
    /\ templates \in TemplateLists /\ generations \in TemplateLists /\ told \in TemplateLists
    /\ cached \in [TemplateLists -> TemplateLists \cup {NoTemplateList}]
    /\ creating \subseteq Scopes \X (1 .. MaxTemplates)
    /\ computing \in [TemplateKeys -> TemplateFlight]
    /\ asker \in [Askers -> [phase : {"new", "user", "workspace", "lookup", "waiting", "done"},
                              key : TemplateKeys, since : TemplateLists, got : TemplateLists \cup {NoTemplateList}]]

(* Who asks after the creation of a template was answered sees it, in both scopes, although the *)
(* generations are read one after the other and lists computed before are stored after: such a  *)
(* list is under a generation that was read before.                                             *)
TemplatesAreFresh ==
    \A r \in Askers :
        asker[r].phase = "done" /\ asker[r].key # NoGeneration =>
            \A s \in Scopes : asker[r].got[s] >= asker[r].since[s]
=============================================================================
