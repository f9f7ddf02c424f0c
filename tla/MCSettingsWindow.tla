--------------------------- MODULE MCSettingsWindow ---------------------------
EXTENDS SettingsWindow

CONSTANT w1

\* The case the theorems about edits assume.
ASSUME InstanceIsPlain == PlainFiles

\* A file of keys with comments, one with tables and both spellings, one that
\* presets, one with keys only root's hand writes, one that repeats a table.
Commentary == <<Prose, Example(<<"liveness", "motion">>), Assign(<<"threshold">>, 60)>>
Tabled == <<Assign(<<"motion">>, 2), Heading("lockout"), Assign(<<"threshold">>, 5),
            Heading("liveness"), Assign(<<"motion">>, 3)>>
Preset == <<Assign(<<"liveness", "preset">>, 3), Example(<<"pinned">>)>>
Pinned == <<Assign(<<"pinned">>, 1), Assign(<<"embeddings_dir">>, 2)>>
Twice  == <<Heading("liveness"), Assign(<<"preset">>, 1), Heading("liveness")>>

Personal == <<Prose, Assign(<<"threshold">>, 70)>>
Own      == <<Heading("liveness"), Assign(<<"motion">>, 3)>>
Initial1 == {<<Commentary, Personal>>, <<Tabled, <<>> >>,
             <<Preset, Own>>, <<Pinned, Garbled>>, <<Twice, Missing>>}
Hands1 == {Pinned, Missing}
Offered1 == [motion |-> {1, 2}, lockout_threshold |-> {9}, threshold |-> {20, 80},
             embeddings_dir |-> {1, 2}, preset |-> {1, 2}]
\* 'security', as strict.
Strict == <<[key |-> "preset", value |-> 3], [key |-> "threshold", value |-> 70],
            [key |-> "min_face", value |-> 10], [key |-> "start_delay", value |-> 50]>>
Modes1 == {Strict}
Initial2 == {<<Tabled, Missing>>, <<Preset, Missing>>}
=============================================================================
