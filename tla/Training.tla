------------------------------ MODULE Training -------------------------------
(***************************************************************************)
(* SVChecker (svchecker.py) over the lives of the processes that run it:   *)
(* training a vocabulary, training the transformer and testing it.  The    *)
(* vocabularies and the checkpoint are files and outlive the process; the  *)
(* best accuracy, the batch it was reached at and the weights do not.      *)
(*                                                                         *)
(* Data.  Weights are the evaluation they were given; an evaluation is its *)
(* process, its batch, an accuracy and a loss.  Of a vocabulary it counts  *)
(* whether the file is there and complete.                                 *)
(***************************************************************************)
EXTENDS Integers

CONSTANTS
    NumEpochs, EpochBatches,   \* num_epochs and len(train_iter)
    Interval,                  \* batches from one evaluation to the next: 100
    RequireImprovement,        \* require_improvement
    MaxAcc, MaxLoss,           \* bounds: accuracies are 0..MaxAcc, losses 0..MaxLoss
    MaxRuns                    \* bound: processes started

ASSUME BatchesAssumption == NumEpochs \in Nat /\ EpochBatches \in Nat /\ NumEpochs * EpochBatches \in Nat \ {0}
ASSUME IntervalAssumption == Interval \in Nat \ {0} /\ RequireImprovement \in Nat
ASSUME BoundsAssumption == MaxAcc \in Nat /\ MaxLoss \in Nat /\ MaxRuns \in Nat

VARIABLES
    todo, stage,                 \* the calls main has left; where in the first of them
    total_batch, dev_best_acc, last_improve,
    training,                    \* the mode of the model
    embedding,                   \* the data sets that have loaded a vocabulary
    word2vec, uc_word2vec,       \* the vocabularies in ./ and ./uc/
    checkpoint, whole,           \* the file at save_path, and whether it is complete
    evals,                       \* history: the evaluations made while training
    run

counters == <<total_batch, dev_best_acc, last_improve>>
files == <<word2vec, uc_word2vec, checkpoint, whole>>
vars == <<todo, stage, counters, training, embedding, files, evals, run>>

TotalBatches == NumEpochs * EpochBatches
Evaluation == [run : 1..MaxRuns, batch : Nat, acc : 0..MaxAcc, loss : 0..MaxLoss]
File == {"missing", "torn", "whole"}
\* The checkpoint of the repository is of no process here.
Shipped == [run |-> 0, batch |-> 0, acc |-> 0, loss |-> 0]
NoCheckpoint == [run |-> -1, batch |-> 0, acc |-> 0, loss |-> 0]

\* main's three calls, any of which may be commented out, and those before each.
Before == [train_word2vec |-> {}, train_transformer |-> {"train_word2vec"},
           test_case |-> {"train_word2vec", "train_transformer"}]
Call(c) ==
    /\ stage = "main" /\ c \in todo /\ todo \cap Before[c] = {}
    /\ todo' = todo \ {c}

Init ==
    /\ todo = {} /\ stage = "down"
    /\ total_batch = 0 /\ dev_best_acc = 0 /\ last_improve = 0
    /\ training = TRUE /\ embedding = {}
    /\ word2vec \in {"missing", "whole"} /\ uc_word2vec \in {"missing", "whole"}
    /\ checkpoint \in {NoCheckpoint, Shipped} /\ whole = TRUE
    /\ evals = {} /\ run = 0

Start ==
    /\ stage = "down" /\ run < MaxRuns
    /\ run' = run + 1
    /\ stage' = "main" /\ todo' \in SUBSET DOMAIN Before
    /\ UNCHANGED <<counters, training, embedding, files, evals>>

TrainWord2vec ==
    /\ Call("train_word2vec")
    /\ IF word2vec = "missing"
         THEN word2vec' = "torn" /\ stage' = "save_word2vec"
         ELSE UNCHANGED <<word2vec, stage>>
    /\ UNCHANGED <<counters, training, embedding, uc_word2vec, checkpoint, whole, evals, run>>

\* model.save has written all of it.
SaveWord2vec ==
    /\ stage = "save_word2vec"
    /\ word2vec' = "whole" /\ stage' = "main"
    /\ UNCHANGED <<todo, counters, training, embedding, uc_word2vec, checkpoint, whole, evals, run>>

\* CustomDataset; that load_model found no file is not looked at, a torn one raises.
LoadModel(set, others, next) ==
    /\ embedding' = IF uc_word2vec = "whole" THEN others \cup {set} ELSE others
    /\ stage' = IF uc_word2vec = "torn" THEN "down" ELSE next

TrainTransformer ==
    /\ Call("train_transformer")
    /\ LoadModel("train", {}, "valid_set")
    /\ UNCHANGED <<counters, training, files, evals, run>>

\* The second data set, and train up to its loops.
LoadValidSet ==
    /\ stage = "valid_set"
    /\ LoadModel("valid", embedding, "batch")
    /\ training' = TRUE
    /\ total_batch' = 0 /\ dev_best_acc' = 0 /\ last_improve' = 0
    /\ UNCHANGED <<todo, files, evals, run>>

\* The first sample is vectorised without an embedding.
NoEmbedding ==
    /\ \/ stage = "batch" /\ "train" \notin embedding
       \/ stage = "evaluate" /\ "valid" \notin embedding
       \/ stage = "test" /\ "test" \notin embedding
    /\ stage' = "down"
    /\ UNCHANGED <<todo, counters, training, embedding, files, evals, run>>

\* A step of the optimizer; evaluate begins with model.eval().
Batch ==
    /\ stage = "batch" /\ "train" \in embedding
    /\ IF total_batch % Interval = 0
         THEN stage' = "evaluate" /\ training' = FALSE
         ELSE stage' = "advance" /\ UNCHANGED training
    /\ UNCHANGED <<todo, counters, embedding, files, evals, run>>

BetterMutant(acc) == acc >= dev_best_acc
Better(acc) == acc > dev_best_acc

\* torch.save truncates the file before it writes it; a process that stops before that
\* might as well have stopped before it evaluated.
Improve ==
    /\ stage = "evaluate" /\ "valid" \in embedding
    /\ \E acc \in 0..MaxAcc, loss \in 0..MaxLoss :
        LET e == [run |-> run, batch |-> total_batch, acc |-> acc, loss |-> loss]
        IN  /\ Better(acc)
            /\ evals' = evals \cup {e}
            /\ dev_best_acc' = acc
            /\ checkpoint' = e /\ whole' = FALSE
    /\ stage' = "save"
    /\ UNCHANGED <<todo, total_batch, last_improve, training, embedding, word2vec, uc_word2vec, run>>

SaveMutant == \* last_improve stays
    /\ stage = "save"
    /\ whole' = TRUE /\ training' = TRUE /\ stage' = "advance"
    /\ UNCHANGED <<todo, counters, embedding, word2vec, uc_word2vec, checkpoint, evals, run>>
Save ==
    /\ stage = "save"
    /\ whole' = TRUE
    /\ last_improve' = total_batch
    /\ training' = TRUE
    /\ stage' = "advance"
    /\ UNCHANGED <<todo, total_batch, dev_best_acc, embedding, word2vec, uc_word2vec, checkpoint, evals, run>>

NotImprovedMutant == \* model.train() in the other branch only
    /\ stage = "evaluate" /\ "valid" \in embedding
    /\ \E acc \in 0..MaxAcc, loss \in 0..MaxLoss :
        /\ ~Better(acc)
        /\ evals' = evals \cup {[run |-> run, batch |-> total_batch, acc |-> acc, loss |-> loss]}
    /\ stage' = "advance"
    /\ UNCHANGED <<todo, counters, training, embedding, files, run>>
NotImproved ==
    /\ stage = "evaluate" /\ "valid" \in embedding
    /\ \E acc \in 0..MaxAcc, loss \in 0..MaxLoss :
        /\ ~Better(acc)
        /\ evals' = evals \cup {[run |-> run, batch |-> total_batch, acc |-> acc, loss |-> loss]}
    /\ training' = TRUE
    /\ stage' = "advance"
    /\ UNCHANGED <<todo, counters, embedding, files, run>>

\* Both loops are left after too long without improvement, or they end.
Advance ==
    /\ stage = "advance"
    /\ total_batch' = total_batch + 1
    /\ stage' = IF total_batch' - last_improve > RequireImprovement \/ total_batch' = TotalBatches
                  THEN "trained" ELSE "batch"
    /\ UNCHANGED <<todo, dev_best_acc, last_improve, training, embedding, files, evals, run>>

Return ==
    /\ stage = "trained" \/ (stage = "test" /\ "test" \in embedding)
    /\ stage' = "main"
    /\ UNCHANGED <<todo, counters, training, embedding, files, evals, run>>

\* torch.load raises when there is no checkpoint or half of one.
TestCase ==
    /\ Call("test_case")
    /\ IF checkpoint # NoCheckpoint /\ whole
         THEN LoadModel("test", {}, "test") /\ training' = FALSE
         ELSE stage' = "down" /\ UNCHANGED <<training, embedding>>
    /\ UNCHANGED <<counters, files, evals, run>>

\* The process is killed, or a call raises: a file is missing, a word is not in the vocabulary.
Kill ==
    /\ stage # "down"
    /\ stage' = "down"
    /\ UNCHANGED <<todo, counters, training, embedding, files, evals, run>>

\* The user copies the vocabulary, as it is at that time, to where it is loaded from.
Install ==
    /\ word2vec # "missing"
    /\ uc_word2vec' = word2vec
    /\ UNCHANGED <<todo, stage, counters, training, embedding, word2vec, checkpoint, whole, evals, run>>

Next ==
    \/ Start \/ TrainWord2vec \/ SaveWord2vec \/ TrainTransformer \/ LoadValidSet \/ NoEmbedding \/ Batch \/ Improve \/ Save
    \/ NotImproved \/ Advance \/ Return \/ TestCase \/ Kill \/ Install

Spec == Init /\ [][Next]_vars

-----------------------------------------------------------------------------
(* Properties *)

TypeOK ==
    /\ todo \subseteq DOMAIN Before
    /\ stage \in {"down", "main", "save_word2vec", "valid_set", "batch", "evaluate", "save", "advance", "trained", "test"}
    /\ total_batch \in 0..TotalBatches /\ dev_best_acc \in 0..MaxAcc /\ last_improve \in 0..total_batch
    /\ training \in BOOLEAN
    /\ embedding \subseteq {"train", "valid", "test"}
    /\ {word2vec, uc_word2vec} \subseteq File
    /\ checkpoint \in Evaluation \cup {NoCheckpoint, Shipped} /\ whole \in BOOLEAN
    /\ evals \subseteq Evaluation /\ run \in 0..MaxRuns

\* The first of the best evaluations of its process, and above zero.
IsBest(e) ==
    /\ e \in evals /\ e.acc > 0
    /\ \A x \in evals : x.run = e.run => x.acc < e.acc \/ (x.acc = e.acc /\ x.batch >= e.batch)

\* The checkpoint, which test_case loads, is the best model that the latest process with an
\* accuracy above zero evaluated, the first of equals; a process that stopped while saving
\* leaves half of it, until a later process has an accuracy above zero.  The one the
\* repository ships stays as long as no process has such an accuracy, whatever it was worth
\* itself, and so does that of an earlier process.
CheckpointIsBest ==
    /\ checkpoint.run < 1 => \A x \in evals : x.acc = 0
    /\ checkpoint.run >= 1 => IsBest(checkpoint) /\ \A x \in evals : x.run > checkpoint.run => x.acc = 0
    /\ ~whole => stage \in {"save", "down"} \/ checkpoint.run < run

\* The batch of this training's best evaluation.
BestBatch == LET best == {e \in evals : e.run = run /\ IsBest(e)}
             IN  IF best = {} THEN 0 ELSE (CHOOSE e \in best : TRUE).batch

\* Of the accuracy, the "effect" of the comment beside require_improvement (LossPatience is of
\* the loss): training goes on while the best evaluation is at most RequireImprovement batches
\* old and stops before the end exactly one batch later, which that batch's evaluation can no
\* longer prevent; the batches since the last evaluation, fewer than Interval, are in no
\* checkpoint.
AccuracyPatience ==
    /\ stage \in {"batch", "evaluate"} => total_batch <= BestBatch + RequireImprovement
    /\ stage = "trained" =>
        /\ total_batch = TotalBatches \/ total_batch = BestBatch + RequireImprovement + 1
        /\ \E e \in evals : e.run = run /\ total_batch <= e.batch + Interval

\* What the comments beside last_improve and the early stop say: training ends before its
\* last batch only when the loss of the validation set has not fallen for more than
\* RequireImprovement batches.
LossFell(e) == \A x \in evals : x.run = e.run /\ x.batch < e.batch => e.loss < x.loss
LossPatience ==
    stage = "trained" /\ total_batch < TotalBatches =>
        \A e \in evals : e.run = run /\ LossFell(e) => total_batch - e.batch > RequireImprovement

\* The optimizer steps with dropout, evaluation and test are without.
ModeMatches ==
    /\ stage \in {"batch", "advance"} => training
    /\ stage \in {"evaluate", "save", "test"} => ~training


=============================================================================
