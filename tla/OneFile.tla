------------------------------- MODULE OneFile -------------------------------
(***************************************************************************)
(* The agent of module LogAgent on a node with one log file that is        *)
(* created once and then only appended to, every line a message: what      *)
(* module Pipeline takes for granted of the agent.  Calls fail, the server *)
(* drops entries, saves fail and the process is killed as in LogAgent.     *)
(***************************************************************************)
EXTENDS LogAgent

TheFile == CHOOSE p \in Path : TRUE

\* One path, full lines only, a directory that can be read, no shutdown.
SingleFile ==
  /\ Path = {TheFile}
  /\ Kind = {"F"}
  /\ "unlisted" \notin Mishap
  /\ ~MayCancel

\* Neither removed, nor rotated or truncated.
OnlyAppended == names[TheFile] # 0 => UNCHANGED <<names, home>>

OneFileSpec == Init /\ [][Next /\ OnlyAppended]_agentVars

\* The batch is shipped when its positions are saved, or could not be: a crash
\* after the receipt and before the save is like one before the receipt.
Shipping == spc # "collect"
ShippedTo == IF spc = "save" THEN Head(batch).offset - 1 ELSE positions[TheFile].offset
ReadTo    == IF Shipping THEN batch[Len(batch)].offset ELSE ShippedTo

Lines == INSTANCE Shipper WITH
           at      <- IF Shipping THEN "ready" ELSE "collect",
           shipped <- ShippedTo,
           read    <- ReadTo,
           saved   <- saved[TheFile].offset,
           handed  <- Accepted \cup dropped

\* "Only after that receipt is it safe to save the batch's file positions"
\* (Shipper): with tailer, channel and calls that break after any prefix, batches
\* are the next lines of the file without a gap, and a position moves from one end
\* of a batch to the other, when all its lines were handed over, or back to the
\* saved one.
ImplementsShipper == Lines!Spec

=============================================================================
