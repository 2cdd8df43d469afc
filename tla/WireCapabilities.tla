-------------------------- MODULE WireCapabilities --------------------------
(***************************************************************************)
(* The rows of capabilities.hpp.  A section keeps the object it was read   *)
(* from in `raw`; to_json starts from that object and writes the flags     *)
(* over it.  A dotted key is a path into nested objects.                   *)
(***************************************************************************)
EXTENDS WireForms

\* A flag that is an object on the wire.
Flag(key) ==
  [Field(key, {"none", "on"}, {"none"}, Objects, "none")
     EXCEPT !.as = [t \in Objects |-> "on"]]

\* Of a task capability `false` and `true` are read too.
TaskFlag(key) ==
  [Flag(key) EXCEPT !.ok = Objects \cup Bools,
                    !.as = [t \in Objects \cup Bools |-> IF t = "false" THEN "none" ELSE "on"]]

\* tools, prompts, resources, roots; *_present remembers an explicit false.
RootsSection == Raw(Row(<<OptBool("listChanged")>>))
SamplingSection == Raw(Row(<<Flag("tools"), Flag("context")>>))
ElicitationSection == Raw(Row(<<Flag("form"), Flag("url")>>))
FormSection == Raw(Row(<<OptBool("schemaValidation")>>))
ResourcesSection == Raw(Row(<<OptBool("listChanged"), OptBool("subscribe")>>))

TasksSection ==
  Raw(Row(<<TaskFlag("list"), TaskFlag("cancel"), TaskFlag("requests.tools.call"),
            TaskFlag("requests.sampling.createMessage"),
            TaskFlag("requests.elicitation.create")>>))

\* A section that is enabled or has content is written; extensions is not when empty.
Section(key) == OptNested(key, TRUE)
Experimental ==
  Field("experimental", {"none"} \cup JsonTokens, ({"none"} \cup JsonTokens) \ Objects,
        Objects, "none")

ClientCapabilities ==
  Closed(Row(<<Section("roots"), Section("sampling"), Section("elicitation"),
               Section("tasks"), Experimental,
               [DefObj("extensions") EXCEPT !.omit = (JsonTokens \ Objects) \cup {"obj0"}]>>))

ServerCapabilities ==
  Closed(Row(<<Section("tools"), Section("resources"), Section("prompts"),
               Section("logging"), Section("completions"), Section("tasks"), Experimental,
               [DefObj("extensions") EXCEPT !.omit = (JsonTokens \ Objects) \cup {"obj0"}]>>))

\* The builders set flags on capabilities that were never read: raw is empty.
ClientCapabilitiesBuilder(row) == {v \in Values(row) : v.extensions = NoExtensions}
ServerCapabilitiesBuilder(row) == {v \in Values(row) : v.extensions = NoExtensions}

CapabilityTypes ==
  [Roots |-> RootsSection, Sampling |-> SamplingSection, Elicitation |-> ElicitationSection,
   ElicitationForm |-> FormSection, Resources |-> ResourcesSection, Tasks |-> TasksSection,
   ClientCapabilities |-> ClientCapabilities, ServerCapabilities |-> ServerCapabilities]
=============================================================================
