----------------------------- MODULE MCOutput -----------------------------
(* Three pipelines on a device that takes the files as they are, on one    *)
(* that has to be given another rate, and on devices that refuse.          *)
EXTENDS Output

MCPipelines == 1..3
MCSourceFrames == <<2, 1, 2>>
MCSpec == [rate |-> 2, channels |-> 2]
Takes(format, channels) == [format |-> format, channels |-> channels, rates |-> {2}]
Device(ranges, build) ==
  [gone |-> FALSE, output |-> TRUE, ranges |-> ranges, build |-> build, buildDefault |-> "ok",
   default |-> [format |-> "I16", rate |-> 3, channels |-> 1]]
MCHost ==
  [default |-> "takes",
   devices |-> [takes |-> Device({Takes("F32", 2), Takes("I16", 2)}, "ok"),
                converts |-> Device({Takes("F32", 1), Takes("DSD", 2)}, "ok"),
                exclusive |-> Device({Takes("I64", 2)}, "Unsupported"),
                broken |-> Device({Takes("I16", 2)}, "BuildFailed"),
                gone |-> [Device({}, "ok") EXCEPT !.gone = TRUE],
                input |-> [Device({}, "ok") EXCEPT !.output = FALSE]]]
MCSelections == DOMAIN MCHost.devices \cup {"SystemDefault", "unplugged"}
MCResampler == [r \in {<<2, 3>>} |-> [input |-> 2, output |-> 3, delay |-> 1]]
=============================================================================
