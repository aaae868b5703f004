------------------------------ MODULE MCTimedTask ------------------------------
(***************************************************************************)
(* TimedTask on a small instance: seconds of four ticks, files of up to    *)
(* six bytes of which Validate looks at four.                              *)
(***************************************************************************)
EXTENDS TimedTask

MCUploads ==
  ({".txt"} \X {<<"a">>, <<"a", "nul">>, <<"ctl">>, <<"lead">>, <<"%PDF">>, <<"a", "%PDF">>,
                <<"a", "lead", "cont", "lead", "cont">>,
                <<"a", "lead", "cont", "a", "lead", "cont">>,
                <<"nl", "lead", "cont", "nl", "a">>})
  \cup ({".json"} \X {<<"open", "a", "close">>, <<"open", "close", "open">>,
                       <<"space", "nl">>, <<"a">>})
  \cup ({".csv"} \X {<<>>, <<"nl", "a">>, <<"a", "nl", "a", "nl", "a">>})
  \cup ({".yaml"} \X {<<"a", "a", "a", "a">>, <<"a", "colon", "nl", "a", "colon">>,
                       <<"hash", "colon", "nl", "space", "a", "colon">>,
                       <<"a", "space", "colon">>,
                       <<"lead", "cont", "colon", "nl", "a", "colon">>})
  \cup ({".exe"} \X {<<"a">>})
================================================================================
