----------------------------- MODULE MCStartup ------------------------------
(* Instances of Startup for TLC.                                           *)
EXTENDS Startup

(* Bases and endpoints, with and without trailing slashes and doubled ones.*)
MCPaths ==
    {<<"">>, <<"ws">>, <<"ws", "">>, <<"a", "">>, <<"a", "ws">>, <<"a", "ws", "", "">>,
     <<"ws", "a">>, <<"a", "", "ws">>, <<"a", "", "b", "">>}

MCTargets == [scheme : {"http", "https", "ws", "wss", "ftp"}, path : MCPaths, extras : BOOLEAN]

MCConfigurations ==
    [instance : {"ec2", "host", "long"}, resources : {{"node"}, {"node", "long"}},
     target : MCTargets]

MCServices == SUBSET {"v1", "v2"}
=============================================================================
