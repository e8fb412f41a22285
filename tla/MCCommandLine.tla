--------------------------- MODULE MCCommandLine ---------------------------
(* Two streams, so that one can stay quiet while the other delivers, and a *)
(* clock long enough for a stream to fall silent, come back and fall       *)
(* silent again, with passes between; every combination of the settings    *)
(* the guards look at.                                                     *)
EXTENDS CommandLine

MCKeys ==
    [prefixed : BOOLEAN, length : {0, 1, PrivateKeyHexLength}, hex : BOOLEAN]

MCAllowlists == [json : BOOLEAN, names : {<<>>, <<"BTC">>, <<"", "BTC">>, <<"DOGE">>}]

MCEnvironments ==
    [execution      : Config!ExecutionEnvironments,
     trading        : BOOLEAN,
     key            : MCKeys,
     allowlist      : MCAllowlists,
     logLevel       : {"INFO", "LOUD"},
     stalenessLimit : {0, StalenessLimit, MaxStaleness + 1}]
=============================================================================
