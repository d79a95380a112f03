---------------------------- MODULE MCJobControl ----------------------------
(* Finite instances of JobControl.                                         *)
EXTENDS JobControl, TLC

CONSTANTS fgjob, bgjob, p1, p2, p3

(* One process each; or a pipeline in the foreground and a command in the  *)
(* background.                                                             *)
Singles == (fgjob :> <<p1>>) @@ (bgjob :> <<p2>>)
PipeAndSingle == (fgjob :> <<p1, p2>>) @@ (bgjob :> <<p3>>)

(* A user at the prompt: commands stop, continue, fail and exit.           *)
Shell1 == [pipeline |-> Singles, foreground |-> {fgjob}, async |-> {},
           raise |-> {fgjob, bgjob}, interactive |-> TRUE,
           maxStops |-> 1, maxDepth |-> 4]

(* A program that nobody watches.                                          *)
Script == [pipeline |-> PipeAndSingle, foreground |-> {fgjob},
           async |-> {bgjob}, raise |-> {fgjob, bgjob}, interactive |-> FALSE,
           maxStops |-> 0, maxDepth |-> 3]

ShellAndScript == {Shell1, Script}
Undisturbed == {[Shell1 EXCEPT !.maxStops = 0, !.maxDepth = 2]}
PipelineTyped == {[Script EXCEPT !.interactive = TRUE, !.async = {},
                                 !.raise = {fgjob}]}
=============================================================================
