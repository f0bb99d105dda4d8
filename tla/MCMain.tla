------------------------------- MODULE MCMain -------------------------------
(* The three builds that are shipped, and values of DIAR_DEVICES: blank,   *)
(* one name, several, the same twice, a blank in front, names the build    *)
(* may not have, a name nobody has.                                        *)
EXTENDS Main

OneFeature == {{}, {"cuda"}, {"coreml"}}

Lists == {<<"">>, <<"cpu">>, <<"cuda", "cpu">>, <<"cpu", "cuda", "cpu">>, <<"", "coreml_fast">>,
          <<"coreml", "cpu", "coreml">>, <<"cpu", "tpu">>}
=============================================================================
