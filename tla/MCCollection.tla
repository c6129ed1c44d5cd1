----------------------------- MODULE MCCollection -----------------------------
(***************************************************************************)
(* Collection with small sets of documents and batches.                    *)
(***************************************************************************)
EXTENDS Collection, TLC

\* The batches that put one document and delete the others.
MCBatches ==
    {[[d \in Docs |-> Deleted] EXCEPT ![put] = v] : put \in Docs, v \in Vals}

\* Kills between any two storage calls, with compactions.
Kills == [durability |-> "batch", failures |-> {"process"}, io |-> {}, percents |-> {0, 50}]

\* Power losses, with flushes whose files or whose commit fail.
PowerLosses ==
    [durability |-> "full", failures |-> {"power"}, io |-> {"files", "commit"}, percents |-> {}]

\* Kills, with flushes and compactions whose storage calls fail.
FailingCompactions ==
    [durability |-> "batch", failures |-> {"process"}, percents |-> {0, 50},
     io |-> {"files", "supersede", "compact_files", "compact_commit", "compact_remove"}]

OnlyKills == {Kills}
KillsOrPowerLosses == {Kills, PowerLosses}
OnlyFailingCompactions == {FailingCompactions}

\* Neither documents nor values are told apart.
Symmetry == Permutations(Docs) \cup Permutations(Vals)
===============================================================================
