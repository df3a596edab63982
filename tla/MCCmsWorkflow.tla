----------------------------- MODULE MCCmsWorkflow -----------------------------
(* A lesson that is still a draft, its published topic, a draft listening     *)
(* exercise of the topic, a topic to be created and two exercises that only   *)
(* imports, from two sources, create; three admins.                           *)
EXTENDS CmsWorkflow
CONSTANTS anna, ben, chi, lesson, topic, newTopic, exercise, row, otherRow,
          audio, text, listening, key, file, otherFile, source, otherSource

MCParentsOf == (lesson :> <<>>) @@ (topic :> <<lesson>>) @@ (newTopic :> <<lesson>>)
               @@ (exercise :> <<lesson, topic>>) @@ (row :> <<lesson, topic>>)
               @@ (otherRow :> <<lesson>>)
MCMediaOf == (text :> NoMedia) @@ (listening :> audio)
MCSourceOf == (file :> source) @@ (otherFile :> otherSource)
MCRowsOf == (file :> {row}) @@ (otherFile :> {otherRow})
MCIdOf == (lesson :> 1) @@ (topic :> 1) @@ (newTopic :> 2)
MCSeed == (lesson :> "draft") @@ (topic :> "published") @@ (newTopic :> "none")
          @@ (exercise :> "draft") @@ (row :> "none") @@ (otherRow :> "none")

Symmetry == Permutations({anna, ben, chi})
=============================================================================
