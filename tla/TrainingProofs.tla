--------------------------- MODULE TrainingProofs ----------------------------
(***************************************************************************)
(* Theorems about Training.  The history of evaluations is what the three  *)
(* counters of train summarise: RunningBest says how, and from it follow   *)
(* what the checkpoint is and when training stops.                         *)
(***************************************************************************)
EXTENDS Training, TLAPS

USE DEF NoCheckpoint, Shipped, File

InTraining == {"batch", "evaluate", "save", "advance"}
MyEvals == {e \in evals : e.run = run}

\* What the types rest on: a process that runs was started, and training has a batch left.
Started ==
    /\ stage # "down" => run > 0
    /\ stage \in InTraining => total_batch < TotalBatches

\* Evaluations are of processes started, and those of this one of batches it has done.
Recorded ==
    /\ \A e \in evals : e.run <= run
    /\ \A e \in MyEvals : e.batch <= total_batch
    /\ stage \in {"batch", "evaluate", "trained"} => \A e \in MyEvals : e.batch < total_batch
    /\ stage \in {"main", "save_word2vec"} /\ "train_transformer" \in todo => MyEvals = {}
    /\ stage = "valid_set" => MyEvals = {}
    /\ stage \notin {"main", "save_word2vec", "down"} => "train_transformer" \notin todo

\* The counters of train summarise the evaluations of this training.
RunningBest ==
    stage \in InTraining \cup {"trained"} =>
        /\ \A e \in MyEvals : e.acc <= dev_best_acc
        /\ dev_best_acc = 0 => last_improve = 0 /\ stage # "save"
        /\ dev_best_acc > 0 =>
            /\ checkpoint \in MyEvals /\ checkpoint.acc = dev_best_acc
            /\ checkpoint.batch = (IF stage = "save" THEN total_batch ELSE last_improve)

\* How far training is from its two ends.
Patience ==
    /\ stage \in {"batch", "evaluate", "save", "advance"} => total_batch <= last_improve + RequireImprovement
    /\ stage = "trained" => total_batch = TotalBatches \/ total_batch = last_improve + RequireImprovement + 1

\* The last evaluation is less than Interval batches back.
Recent ==
    /\ stage \in {"batch", "trained"} =>
        total_batch = 0 \/ \E e \in MyEvals : e.batch % Interval = 0 /\ total_batch <= e.batch + Interval
    /\ stage \in {"evaluate", "save"} => total_batch % Interval = 0
    /\ stage = "save" => \E e \in MyEvals : e.batch = total_batch
    /\ stage = "advance" => \E e \in MyEvals : e.batch % Interval = 0 /\ total_batch < e.batch + Interval
    /\ stage = "trained" => total_batch > 0

Typed == TypeOK /\ Started
IInv == Typed /\ Recorded /\ RunningBest /\ CheckpointIsBest /\ Patience /\ Recent

-----------------------------------------------------------------------------

\* The constants as the steps need them.
LEMMA Constants ==
    /\ TotalBatches \in Nat \ {0} /\ Interval \in Nat \ {0} /\ RequireImprovement \in Nat
    /\ MaxAcc \in Nat /\ MaxLoss \in Nat /\ MaxRuns \in Nat
BY BatchesAssumption, IntervalAssumption, BoundsAssumption DEF TotalBatches

\* Types are kept by every step.
LEMMA TypedStep == Typed /\ [Next]_vars => Typed'
<1> USE Constants DEF Typed, TypeOK, Started, InTraining
<1> SUFFICES ASSUME Typed, [Next]_vars PROVE Typed'
  OBVIOUS
<1>1. CASE Start
  BY <1>1 DEF Start, counters, files
<1>2. CASE TrainWord2vec
  BY <1>2 DEF TrainWord2vec, Call, counters
<1>3. CASE TrainTransformer
  <2>1. embedding' \in {{}, {"train"}} /\ stage' \in {"down", "valid_set"} /\ run > 0
    BY <1>3 DEF TrainTransformer, Call, LoadModel
  <2>2. UNCHANGED <<counters, training, files, evals, run>> /\ todo' \subseteq todo
    BY <1>3 DEF TrainTransformer, Call
  <2>. QED BY <2>1, <2>2 DEF counters, files
<1>4. CASE NoEmbedding
  BY <1>4 DEF NoEmbedding, counters, files
<1>5. CASE Batch
  BY <1>5 DEF Batch, counters, files
<1>6. CASE Improve
  <2>1. PICK acc \in 0..MaxAcc, loss \in 0..MaxLoss :
          /\ evals' = evals \cup {[run |-> run, batch |-> total_batch, acc |-> acc, loss |-> loss]}
          /\ dev_best_acc' = acc
          /\ checkpoint' = [run |-> run, batch |-> total_batch, acc |-> acc, loss |-> loss] /\ whole' = FALSE
    BY <1>6 DEF Improve
  <2>2. [run |-> run, batch |-> total_batch, acc |-> acc, loss |-> loss] \in Evaluation
    BY <1>6 DEF Evaluation, Improve
  <2>. QED BY <1>6, <2>1, <2>2 DEF Improve
<1>7. CASE Save
  BY <1>7 DEF Save
<1>8. CASE NotImproved
  <2>1. PICK acc \in 0..MaxAcc, loss \in 0..MaxLoss : evals' = evals \cup {[run |-> run, batch |-> total_batch, acc |-> acc, loss |-> loss]}
    BY <1>8 DEF NotImproved
  <2>2. [run |-> run, batch |-> total_batch, acc |-> acc, loss |-> loss] \in Evaluation
    BY <1>8 DEF Evaluation, NotImproved
  <2>. QED BY <1>8, <2>1, <2>2 DEF NotImproved, counters, files
<1>9. CASE Advance
  BY <1>9 DEF Advance, files
<1>10. CASE Return
  BY <1>10 DEF Return, counters, files
<1>11. CASE TestCase
  BY <1>11 DEF TestCase, Call, LoadModel, counters, files
<1>12. CASE Kill
  BY <1>12 DEF Kill, counters, files
<1>13. CASE Install
  BY <1>13 DEF Install, counters
<1>14. CASE UNCHANGED vars
  BY <1>14 DEF vars, counters, files
<1>15. CASE SaveWord2vec
  BY <1>15 DEF SaveWord2vec, counters
<1>16. CASE LoadValidSet
  BY <1>16 DEF LoadValidSet, LoadModel, files
<1>. QED BY <1>1, <1>2, <1>3, <1>4, <1>5, <1>6, <1>7, <1>8, <1>9, <1>10, <1>11, <1>12, <1>13, <1>14, <1>15, <1>16 DEF Next

\* Every step records the evaluation it makes, if any, and no batch is evaluated twice.
LEMMA RecordedStep == Typed /\ Recorded /\ [Next]_vars => Recorded'
<1> USE Constants DEF Typed, TypeOK, Started, InTraining, Recorded, MyEvals, Evaluation, Before
<1> SUFFICES ASSUME Typed, Recorded, [Next]_vars PROVE Recorded'
  OBVIOUS
<1>1. CASE Start
  BY <1>1 DEF Start, counters, files
<1>2. CASE TrainWord2vec
  BY <1>2 DEF TrainWord2vec, Call, counters
<1>3. CASE TrainTransformer
  BY <1>3 DEF TrainTransformer, Call, LoadModel, files
<1>4. CASE NoEmbedding
  BY <1>4 DEF NoEmbedding, counters, files
<1>5. CASE Batch
  BY <1>5 DEF Batch, counters, files
<1>6. CASE Improve
  <2>1. PICK acc \in 0..MaxAcc, loss \in 0..MaxLoss :
          /\ acc > dev_best_acc
          /\ evals' = evals \cup {[run |-> run, batch |-> total_batch, acc |-> acc, loss |-> loss]}
          /\ dev_best_acc' = acc
          /\ checkpoint' = [run |-> run, batch |-> total_batch, acc |-> acc, loss |-> loss] /\ whole' = FALSE
    BY <1>6 DEF Improve, Better
  <2> DEFINE new == [run |-> run, batch |-> total_batch, acc |-> acc, loss |-> loss]
  <2>2. new \in Evaluation
    BY <1>6 DEF Evaluation, Improve
  <2>. QED BY <1>6, <2>1, <2>2 DEF Improve
<1>7. CASE Save
  BY <1>7 DEF Save
<1>8. CASE NotImproved
  <2>1. PICK acc \in 0..MaxAcc, loss \in 0..MaxLoss : ~(acc > dev_best_acc) /\ evals' = evals \cup {[run |-> run, batch |-> total_batch, acc |-> acc, loss |-> loss]}
    BY <1>8 DEF NotImproved, Better
  <2> DEFINE new == [run |-> run, batch |-> total_batch, acc |-> acc, loss |-> loss]
  <2>2. new \in Evaluation
    BY <1>8 DEF Evaluation, NotImproved
  <2>3. UNCHANGED <<run, total_batch, todo>> /\ stage = "evaluate" /\ stage' = "advance"
    BY <1>8 DEF NotImproved, counters
  <2>4. \A e \in evals' : e \in evals \/ (e = new /\ e.run = run /\ e.batch = total_batch)
    BY <2>1
  <2>5. \A e \in evals' : e.run <= run' /\ (e.run = run' => e.batch <= total_batch')
    <3>1. \A e \in evals : e.run <= run /\ (e.run = run => e.batch <= total_batch)
      OBVIOUS
    <3>2. run <= run /\ total_batch <= total_batch
      OBVIOUS
    <3>. QED BY <2>3, <2>4, <3>1, <3>2
  <2>. QED BY <2>3, <2>5
<1>9. CASE Advance
  BY <1>9 DEF Advance, files
<1>10. CASE Return
  BY <1>10 DEF Return, counters, files
<1>11. CASE TestCase
  BY <1>11 DEF TestCase, Call, LoadModel, counters, files
<1>12. CASE Kill
  BY <1>12 DEF Kill, counters, files
<1>13. CASE Install
  BY <1>13 DEF Install, counters
<1>14. CASE UNCHANGED vars
  BY <1>14 DEF vars, counters, files
<1>15. CASE SaveWord2vec
  BY <1>15 DEF SaveWord2vec, counters
<1>16. CASE LoadValidSet
  BY <1>16 DEF LoadValidSet, LoadModel, files
<1>. QED BY <1>1, <1>2, <1>3, <1>4, <1>5, <1>6, <1>7, <1>8, <1>9, <1>10, <1>11, <1>12, <1>13, <1>14, <1>15, <1>16 DEF Next

\* The counters keep summarising the evaluations.
LEMMA RunningBestStep == Typed /\ Recorded /\ RunningBest /\ [Next]_vars => RunningBest'
<1> USE Constants DEF Typed, TypeOK, Started, InTraining, Recorded, RunningBest, MyEvals, Evaluation
<1> SUFFICES ASSUME Typed, Recorded, RunningBest, [Next]_vars PROVE RunningBest'
  OBVIOUS
<1>1. CASE Start
  BY <1>1 DEF Start, counters, files
<1>2. CASE TrainWord2vec
  BY <1>2 DEF TrainWord2vec, Call, counters
<1>3. CASE TrainTransformer
  BY <1>3 DEF TrainTransformer, Call, LoadModel, files
<1>4. CASE NoEmbedding
  BY <1>4 DEF NoEmbedding, counters, files
<1>5. CASE Batch
  BY <1>5 DEF Batch, counters, files
<1>6. CASE Improve
  <2>1. PICK acc \in 0..MaxAcc, loss \in 0..MaxLoss :
          /\ acc > dev_best_acc
          /\ evals' = evals \cup {[run |-> run, batch |-> total_batch, acc |-> acc, loss |-> loss]}
          /\ dev_best_acc' = acc
          /\ checkpoint' = [run |-> run, batch |-> total_batch, acc |-> acc, loss |-> loss] /\ whole' = FALSE
    BY <1>6 DEF Improve, Better
  <2> DEFINE new == [run |-> run, batch |-> total_batch, acc |-> acc, loss |-> loss]
  <2>2. new \in Evaluation
    BY <1>6 DEF Evaluation, Improve
  <2>. QED BY <1>6, <2>1, <2>2 DEF Improve
<1>7. CASE Save
  BY <1>7 DEF Save
<1>8. CASE NotImproved
  <2>1. PICK acc \in 0..MaxAcc, loss \in 0..MaxLoss : ~(acc > dev_best_acc) /\ evals' = evals \cup {[run |-> run, batch |-> total_batch, acc |-> acc, loss |-> loss]}
    BY <1>8 DEF NotImproved, Better
  <2> DEFINE new == [run |-> run, batch |-> total_batch, acc |-> acc, loss |-> loss]
  <2>2. new \in Evaluation
    BY <1>8 DEF Evaluation, NotImproved
  <2>. QED BY <1>8, <2>1, <2>2 DEF NotImproved, counters, files
<1>9. CASE Advance
  BY <1>9 DEF Advance, files
<1>10. CASE Return
  BY <1>10 DEF Return, counters, files
<1>11. CASE TestCase
  BY <1>11 DEF TestCase, Call, LoadModel, counters, files
<1>12. CASE Kill
  BY <1>12 DEF Kill, counters, files
<1>13. CASE Install
  BY <1>13 DEF Install, counters
<1>14. CASE UNCHANGED vars
  BY <1>14 DEF vars, counters, files
<1>15. CASE SaveWord2vec
  BY <1>15 DEF SaveWord2vec, counters
<1>16. CASE LoadValidSet
  BY <1>16 DEF LoadValidSet, LoadModel, files
<1>. QED BY <1>1, <1>2, <1>3, <1>4, <1>5, <1>6, <1>7, <1>8, <1>9, <1>10, <1>11, <1>12, <1>13, <1>14, <1>15, <1>16 DEF Next

\* The checkpoint stays the best of the latest process that has one.
LEMMA CheckpointStep == Typed /\ Recorded /\ RunningBest /\ CheckpointIsBest /\ [Next]_vars => CheckpointIsBest'
<1> USE Constants DEF Typed, TypeOK, Started, InTraining, Recorded, RunningBest, CheckpointIsBest, MyEvals, Evaluation
<1> SUFFICES ASSUME Typed, Recorded, RunningBest, CheckpointIsBest, [Next]_vars PROVE CheckpointIsBest'
  OBVIOUS
<1>1. CASE Start
  <2>1. UNCHANGED <<evals, checkpoint>>
    BY <1>1 DEF Start, counters, files
  <2>2. ~whole' => stage' \in {"save", "down"} \/ checkpoint'.run < run'
    <3>1. checkpoint.run <= run
      BY DEF IsBest
    <3>. QED BY <1>1, <3>1 DEF Start, counters, files
  <2>. QED BY <2>1, <2>2 DEF IsBest
<1>2. CASE TrainWord2vec
  <2>1. UNCHANGED <<evals, checkpoint>>
    BY <1>2 DEF TrainWord2vec, Call, counters
  <2>2. ~whole' => stage' \in {"save", "down"} \/ checkpoint'.run < run'
    BY <1>2 DEF TrainWord2vec, Call, counters
  <2>. QED BY <2>1, <2>2 DEF IsBest
<1>3. CASE TrainTransformer
  <2>1. UNCHANGED <<evals, checkpoint>>
    BY <1>3 DEF TrainTransformer, Call, LoadModel, files
  <2>2. ~whole' => stage' \in {"save", "down"} \/ checkpoint'.run < run'
    BY <1>3 DEF TrainTransformer, Call, LoadModel, files
  <2>. QED BY <2>1, <2>2 DEF IsBest
<1>4. CASE NoEmbedding
  <2>1. UNCHANGED <<evals, checkpoint>>
    BY <1>4 DEF NoEmbedding, counters, files
  <2>2. ~whole' => stage' \in {"save", "down"} \/ checkpoint'.run < run'
    BY <1>4 DEF NoEmbedding, counters, files
  <2>. QED BY <2>1, <2>2 DEF IsBest
<1>5. CASE Batch
  <2>1. UNCHANGED <<evals, checkpoint>>
    BY <1>5 DEF Batch, counters, files
  <2>2. ~whole' => stage' \in {"save", "down"} \/ checkpoint'.run < run'
    BY <1>5 DEF Batch, counters, files
  <2>. QED BY <2>1, <2>2 DEF IsBest
<1>6. CASE Improve
  <2>1. PICK acc \in 0..MaxAcc, loss \in 0..MaxLoss :
          /\ acc > dev_best_acc
          /\ evals' = evals \cup {[run |-> run, batch |-> total_batch, acc |-> acc, loss |-> loss]}
          /\ dev_best_acc' = acc
          /\ checkpoint' = [run |-> run, batch |-> total_batch, acc |-> acc, loss |-> loss] /\ whole' = FALSE
    BY <1>6 DEF Improve, Better
  <2> DEFINE new == [run |-> run, batch |-> total_batch, acc |-> acc, loss |-> loss]
  <2>2. new \in Evaluation
    BY <1>6 DEF Evaluation, Improve
  <2>3. \A x \in evals : x.run = run => x.acc < acc
    BY <2>1, <1>6 DEF Improve
  <2>4. \A x \in evals' : x.run = run => x.acc < acc \/ (x.acc = acc /\ x.batch >= total_batch)
    BY <2>1, <2>2, <2>3
  <2>5. UNCHANGED run /\ checkpoint' = new /\ stage' = "save"
    BY <1>6, <2>1 DEF Improve
  <2>6. IsBest(checkpoint)'
    <3>1. new.run = run /\ new.acc = acc /\ new.batch = total_batch /\ new \in evals' /\ new.acc > 0
      BY <2>1
    <3> HIDE DEF new
    <3>. QED BY <2>4, <2>5, <3>1 DEF IsBest
  <2>7. \A x \in evals' : x.run > checkpoint'.run => x.acc = 0
    <3>1. \A x \in evals : x.run <= run
      OBVIOUS
    <3>2. new.run = run
      OBVIOUS
    <3>3. \A x \in evals' : x \in evals \/ x = new
      BY <2>1
    <3>4. \A x \in evals : x.run \in Int /\ run \in Int
      OBVIOUS
    <3> HIDE DEF new
    <3>5. checkpoint'.run = run
      BY <2>5, <3>2
    <3>. QED BY <3>1, <3>2, <3>3, <3>4, <3>5
  <2>8. checkpoint'.run >= 1
    BY <2>5, <1>6 DEF Improve
  <2>. QED BY <2>5, <2>6, <2>7, <2>8
<1>7. CASE Save
  <2>1. UNCHANGED <<evals, checkpoint>>
    BY <1>7 DEF Save
  <2>2. ~whole' => stage' \in {"save", "down"} \/ checkpoint'.run < run'
    BY <1>7 DEF Save
  <2>. QED BY <2>1, <2>2 DEF IsBest
<1>8. CASE NotImproved
  <2>1. PICK acc \in 0..MaxAcc, loss \in 0..MaxLoss : ~(acc > dev_best_acc) /\ evals' = evals \cup {[run |-> run, batch |-> total_batch, acc |-> acc, loss |-> loss]}
    BY <1>8 DEF NotImproved, Better
  <2> DEFINE new == [run |-> run, batch |-> total_batch, acc |-> acc, loss |-> loss]
  <2>2. new \in Evaluation
    BY <1>8 DEF Evaluation, NotImproved
  <2>3. UNCHANGED <<checkpoint, whole, run, dev_best_acc, last_improve>> /\ stage = "evaluate" /\ stage' = "advance"
    BY <1>8 DEF NotImproved, counters, files
  <2>4. new.acc > 0 => checkpoint.run = run /\ checkpoint.acc >= new.acc
    BY <2>1, <2>2, <2>3
  <2>5. checkpoint.run < 1 => new.acc = 0
    BY <2>1, <2>2, <2>3
  <2>6. checkpoint.run >= 1 => IsBest(checkpoint)'
    <3> SUFFICES ASSUME checkpoint.run >= 1 PROVE IsBest(checkpoint)'
      OBVIOUS
    <3>1. IsBest(checkpoint)
      OBVIOUS
    <3>2. new.run = checkpoint.run => new.acc <= checkpoint.acc /\ new.batch >= checkpoint.batch
      BY <2>1, <2>2, <2>3, <3>1 DEF IsBest
    <3>. QED BY <2>1, <2>2, <2>3, <3>1, <3>2 DEF IsBest
  <2>7. checkpoint.run >= 1 => \A x \in evals' : x.run > checkpoint.run => x.acc = 0
    BY <2>1, <2>2, <2>3
  <2>. QED BY <2>1, <2>3, <2>5, <2>6, <2>7
<1>9. CASE Advance
  <2>1. UNCHANGED <<evals, checkpoint>>
    BY <1>9 DEF Advance, files
  <2>2. ~whole' => stage' \in {"save", "down"} \/ checkpoint'.run < run'
    BY <1>9 DEF Advance, files
  <2>. QED BY <2>1, <2>2 DEF IsBest
<1>10. CASE Return
  <2>1. UNCHANGED <<evals, checkpoint>>
    BY <1>10 DEF Return, counters, files
  <2>2. ~whole' => stage' \in {"save", "down"} \/ checkpoint'.run < run'
    BY <1>10 DEF Return, counters, files
  <2>. QED BY <2>1, <2>2 DEF IsBest
<1>11. CASE TestCase
  <2>1. UNCHANGED <<evals, checkpoint>>
    BY <1>11 DEF TestCase, Call, LoadModel, counters, files
  <2>2. ~whole' => stage' \in {"save", "down"} \/ checkpoint'.run < run'
    BY <1>11 DEF TestCase, Call, LoadModel, counters, files
  <2>. QED BY <2>1, <2>2 DEF IsBest
<1>12. CASE Kill
  <2>1. UNCHANGED <<evals, checkpoint>>
    BY <1>12 DEF Kill, counters, files
  <2>2. ~whole' => stage' \in {"save", "down"} \/ checkpoint'.run < run'
    BY <1>12 DEF Kill, counters, files
  <2>. QED BY <2>1, <2>2 DEF IsBest
<1>13. CASE Install
  <2>1. UNCHANGED <<evals, checkpoint>>
    BY <1>13 DEF Install, counters
  <2>2. ~whole' => stage' \in {"save", "down"} \/ checkpoint'.run < run'
    BY <1>13 DEF Install, counters
  <2>. QED BY <2>1, <2>2 DEF IsBest
<1>14. CASE UNCHANGED vars
  BY <1>14 DEF vars, counters, files, IsBest
<1>15. CASE SaveWord2vec
  <2>1. UNCHANGED <<evals, checkpoint>>
    BY <1>15 DEF SaveWord2vec, counters
  <2>2. ~whole' => stage' \in {"save", "down"} \/ checkpoint'.run < run'
    BY <1>15 DEF SaveWord2vec, counters
  <2>. QED BY <2>1, <2>2 DEF IsBest
<1>16. CASE LoadValidSet
  <2>1. UNCHANGED <<evals, checkpoint>>
    BY <1>16 DEF LoadValidSet, LoadModel, files
  <2>2. ~whole' => stage' \in {"save", "down"} \/ checkpoint'.run < run'
    BY <1>16 DEF LoadValidSet, LoadModel, files
  <2>. QED BY <2>1, <2>2 DEF IsBest
<1>. QED BY <1>1, <1>2, <1>3, <1>4, <1>5, <1>6, <1>7, <1>8, <1>9, <1>10, <1>11, <1>12, <1>13, <1>14, <1>15, <1>16 DEF Next

\* Training gets no further from its last improvement than allowed.
LEMMA PatienceStep == Typed /\ Patience /\ [Next]_vars => Patience'
<1> USE Constants DEF Typed, TypeOK, Started, InTraining, Patience
<1> SUFFICES ASSUME Typed, Patience, [Next]_vars PROVE Patience'
  OBVIOUS
<1>1. CASE Start
  BY <1>1 DEF Start, counters, files
<1>2. CASE TrainWord2vec
  BY <1>2 DEF TrainWord2vec, Call, counters
<1>3. CASE TrainTransformer
  BY <1>3 DEF TrainTransformer, Call, LoadModel, files
<1>4. CASE NoEmbedding
  BY <1>4 DEF NoEmbedding, counters, files
<1>5. CASE Batch
  BY <1>5 DEF Batch, counters, files
<1>6. CASE Improve
  BY <1>6 DEF Improve
<1>7. CASE Save
  BY <1>7 DEF Save
<1>8. CASE NotImproved
  BY <1>8 DEF NotImproved, counters, files
<1>9. CASE Advance
  BY <1>9 DEF Advance, files
<1>10. CASE Return
  BY <1>10 DEF Return, counters, files
<1>11. CASE TestCase
  BY <1>11 DEF TestCase, Call, LoadModel, counters, files
<1>12. CASE Kill
  BY <1>12 DEF Kill, counters, files
<1>13. CASE Install
  BY <1>13 DEF Install, counters
<1>14. CASE UNCHANGED vars
  BY <1>14 DEF vars, counters, files
<1>15. CASE SaveWord2vec
  BY <1>15 DEF SaveWord2vec, counters
<1>16. CASE LoadValidSet
  BY <1>16 DEF LoadValidSet, LoadModel, files
<1>. QED BY <1>1, <1>2, <1>3, <1>4, <1>5, <1>6, <1>7, <1>8, <1>9, <1>10, <1>11, <1>12, <1>13, <1>14, <1>15, <1>16 DEF Next

\* The next multiple.
LEMMA NextMultiple == ASSUME NEW b \in Nat, b % Interval = 0 PROVE (b + Interval) % Interval = 0
<1>1. PICK q \in Nat : b = q * Interval
  BY Constants
<1> DEFINE d == (b + Interval) \div Interval
           r == (b + Interval) % Interval
<1>2. d \in Int /\ r \in 0..(Interval - 1) /\ b + Interval = Interval * d + r
  BY Constants
<1> HIDE DEF d, r
<1>3. Interval * (q + 1 - d) = r
  BY Constants, <1>1, <1>2
<1>4. CASE q + 1 - d >= 1
  <2>1. Interval * (q + 1 - d) >= Interval
    BY Constants, <1>1, <1>2, <1>4
  <2>. QED BY Constants, <1>2, <1>3, <2>1
<1>5. CASE q + 1 - d <= -1
  <2>1. Interval * (q + 1 - d) <= -Interval
    BY Constants, <1>1, <1>2, <1>5
  <2>. QED BY Constants, <1>2, <1>3, <2>1
<1>6. CASE q + 1 - d = 0
  BY Constants, <1>3, <1>6 DEF r
<1>. QED BY <1>1, <1>2, <1>4, <1>5, <1>6

\* Every Interval-th batch is evaluated, the first of them batch 0.
LEMMA RecentStep == Typed /\ Recent /\ [Next]_vars => Recent'
<1> USE Constants DEF Typed, TypeOK, Started, InTraining, Recent, MyEvals
<1> SUFFICES ASSUME Typed, Recent, [Next]_vars PROVE Recent'
  OBVIOUS
<1>1. CASE Start
  BY <1>1 DEF Start, counters, files
<1>2. CASE TrainWord2vec
  BY <1>2 DEF TrainWord2vec, Call, counters
<1>3. CASE TrainTransformer
  BY <1>3 DEF TrainTransformer, Call, LoadModel, files
<1>4. CASE NoEmbedding
  BY <1>4 DEF NoEmbedding, counters, files
<1>5. CASE Improve
  <2>1. PICK acc \in 0..MaxAcc, loss \in 0..MaxLoss : evals' = evals \cup {[run |-> run, batch |-> total_batch, acc |-> acc, loss |-> loss]}
    BY <1>5 DEF Improve
  <2> DEFINE new == [run |-> run, batch |-> total_batch, acc |-> acc, loss |-> loss]
  <2>2. new \in evals' /\ new.run = run /\ new.batch = total_batch
    BY <2>1
  <2>3. UNCHANGED <<run, total_batch>> /\ stage = "evaluate" /\ stage' = "save"
    BY <1>5 DEF Improve
  <2>4. total_batch % Interval = 0 /\ total_batch \in Nat
    BY <2>3
  <2>. QED BY <2>2, <2>3, <2>4
<1>6. CASE Save
  <2>1. UNCHANGED <<run, total_batch, evals>> /\ stage = "save" /\ stage' = "advance"
    BY <1>6 DEF Save
  <2>2. PICK e \in MyEvals : e.batch = total_batch
    BY <2>1
  <2>3. e.batch % Interval = 0 /\ total_batch < e.batch + Interval
    BY <2>1, <2>2
  <2>4. e \in MyEvals'
    BY <2>1
  <2>. QED BY <2>1, <2>3, <2>4
<1>7. CASE NotImproved
  <2>1. PICK acc \in 0..MaxAcc, loss \in 0..MaxLoss : evals' = evals \cup {[run |-> run, batch |-> total_batch, acc |-> acc, loss |-> loss]}
    BY <1>7 DEF NotImproved
  <2> DEFINE new == [run |-> run, batch |-> total_batch, acc |-> acc, loss |-> loss]
  <2>2. new \in evals' /\ new.run = run /\ new.batch = total_batch
    BY <2>1
  <2>3. UNCHANGED <<run, total_batch>> /\ stage = "evaluate" /\ stage' = "advance"
    BY <1>7 DEF NotImproved, counters, files
  <2>4. total_batch % Interval = 0 /\ total_batch \in Nat
    BY <2>3
  <2>. QED BY <2>2, <2>3, <2>4
<1>8. CASE Return
  BY <1>8 DEF Return, counters, files
<1>9. CASE TestCase
  BY <1>9 DEF TestCase, Call, LoadModel, counters, files
<1>10. CASE Kill
  BY <1>10 DEF Kill, counters, files
<1>11. CASE Install
  BY <1>11 DEF Install, counters
<1>12. CASE Batch
  <2>1. UNCHANGED <<run, total_batch, evals>> /\ stage = "batch"
    BY <1>12 DEF Batch, counters
  <2>2. CASE total_batch % Interval = 0
    BY <1>12, <2>1, <2>2 DEF Batch
  <2>3. CASE total_batch % Interval # 0
    <3>1. stage' = "advance"
      BY <1>12, <2>3 DEF Batch
    <3>2. total_batch # 0
      BY <2>3
    <3>3. PICK e \in MyEvals : e.batch % Interval = 0 /\ total_batch <= e.batch + Interval
      BY <2>1, <3>2
    <3>4. e.batch \in Nat
      BY DEF Evaluation
    <3>5. total_batch # e.batch + Interval
      BY <2>3, <3>3, <3>4, NextMultiple
    <3>6. total_batch < e.batch + Interval
      BY <3>3, <3>4, <3>5
    <3>. QED BY <2>1, <3>1, <3>3, <3>6
  <2>. QED BY <2>2, <2>3
<1>13. CASE Advance
  <2>1. UNCHANGED <<run, evals>> /\ stage = "advance" /\ total_batch' = total_batch + 1 /\ stage' \in {"trained", "batch"}
    BY <1>13 DEF Advance
  <2>2. PICK e \in MyEvals : e.batch % Interval = 0 /\ total_batch < e.batch + Interval
    BY <2>1
  <2>3. e.batch \in Nat
    BY DEF Evaluation
  <2>4. total_batch' <= e.batch + Interval /\ total_batch' > 0
    BY <2>1, <2>2, <2>3
  <2>. QED BY <2>1, <2>2, <2>4
<1>14. CASE UNCHANGED vars
  BY <1>14 DEF vars, counters, files
<1>15. CASE SaveWord2vec
  BY <1>15 DEF SaveWord2vec, counters
<1>16. CASE LoadValidSet
  BY <1>16 DEF LoadValidSet, LoadModel, files
<1>. QED BY <1>1, <1>2, <1>3, <1>4, <1>5, <1>6, <1>7, <1>8, <1>9, <1>10, <1>11, <1>12, <1>13, <1>14, <1>15, <1>16 DEF Next

\* The invariant of training.
THEOREM Invariance == Spec => []IInv
<1>1. Init => IInv
  BY Constants DEF Init, IInv, Typed, TypeOK, Started, InTraining, Recorded, MyEvals, RunningBest, CheckpointIsBest,
               Patience, Recent, Evaluation
<1>2. IInv /\ [Next]_vars => IInv'
  BY TypedStep, RecordedStep, RunningBestStep, CheckpointStep, PatienceStep, RecentStep DEF IInv
<1>. QED BY <1>1, <1>2, PTL DEF Spec

\* The checkpoint is the best model of the latest process that has one, for any number of
\* batches, processes and accuracies.
THEOREM CheckpointCorrect == Spec => []CheckpointIsBest
BY Invariance, PTL DEF IInv

\* The history's best evaluation is what last_improve says.
LEMMA BestIsLast ==
    ASSUME IInv, stage \in {"batch", "evaluate", "trained"} PROVE BestBatch = last_improve
<1> DEFINE best == {e \in evals : e.run = run /\ IsBest(e)}
<1> USE Constants DEF IInv, Typed, TypeOK, RunningBest, InTraining, MyEvals
<1>0. \A e \in evals : e.run \in Nat /\ e.batch \in Nat /\ e.acc \in Nat
  BY DEF Evaluation
<1>1. CASE dev_best_acc = 0
  <2>1. best = {}
    BY <1>0, <1>1 DEF IsBest
  <2>. QED BY <1>1, <2>1 DEF BestBatch
<1>2. CASE dev_best_acc > 0
  <2>1. checkpoint \in evals /\ checkpoint.run = run /\ checkpoint.batch = last_improve /\ checkpoint.acc > 0
    BY <1>2
  <2>2. IsBest(checkpoint)
    BY <2>1 DEF CheckpointIsBest
  <2>3. checkpoint \in best
    BY <2>1, <2>2
  <2>4. \A e \in best : e.batch = last_improve
    BY <1>0, <2>1, <2>2 DEF IsBest
  <2>5. BestBatch = (CHOOSE e \in best : TRUE).batch
    BY <2>3 DEF BestBatch
  <2>6. (CHOOSE e \in best : TRUE) \in best
    BY <2>3
  <2>. QED BY <2>4, <2>5, <2>6
<1>. QED BY <1>1, <1>2

\* Training stops no earlier and no later than require_improvement says, whatever the interval.
THEOREM PatienceCorrect == Spec => []AccuracyPatience
<1>1. IInv => AccuracyPatience
  <2> SUFFICES ASSUME IInv PROVE AccuracyPatience
    OBVIOUS
  <2>1. stage \in {"batch", "evaluate", "trained"} => BestBatch = last_improve
    BY BestIsLast
  <2>2. stage = "trained" => \E e \in evals : e.run = run /\ total_batch <= e.batch + Interval
    BY Constants DEF IInv, Recent, MyEvals, Typed, TypeOK
  <2>. QED BY <2>1, <2>2 DEF IInv, Patience, AccuracyPatience
<1>. QED BY <1>1, Invariance, PTL

\* The mode of the model follows the stage.
THEOREM ModeCorrect == Spec => []ModeMatches
<1>1. Init => ModeMatches
  BY DEF Init, ModeMatches
<1>2. ModeMatches /\ [Next]_vars => ModeMatches'
  <2> SUFFICES ASSUME ModeMatches, [Next]_vars PROVE ModeMatches'
    OBVIOUS
  <2> USE DEF ModeMatches
  <2>1. CASE Start
    BY <2>1 DEF Start
  <2>2. CASE TrainWord2vec
    BY <2>2 DEF TrainWord2vec
  <2>3. CASE TrainTransformer
    BY <2>3 DEF TrainTransformer, LoadModel
  <2>4. CASE NoEmbedding
    BY <2>4 DEF NoEmbedding
  <2>5. CASE Batch
    BY <2>5 DEF Batch
  <2>6. CASE Improve
    BY <2>6 DEF Improve
  <2>7. CASE Save
    BY <2>7 DEF Save
  <2>8. CASE NotImproved
    BY <2>8 DEF NotImproved
  <2>9. CASE Advance
    BY <2>9 DEF Advance
  <2>10. CASE Return
    BY <2>10 DEF Return
  <2>11. CASE TestCase
    BY <2>11 DEF TestCase, LoadModel
  <2>12. CASE Kill
    BY <2>12 DEF Kill
  <2>13. CASE Install
    BY <2>13 DEF Install
  <2>14. CASE UNCHANGED vars
    BY <2>14 DEF vars
  <2>15. CASE SaveWord2vec
    BY <2>15 DEF SaveWord2vec
  <2>16. CASE LoadValidSet
    BY <2>16 DEF LoadValidSet, LoadModel
  <2>. QED BY <2>1, <2>2, <2>3, <2>4, <2>5, <2>6, <2>7, <2>8, <2>9, <2>10, <2>11, <2>12, <2>13, <2>14, <2>15, <2>16 DEF Next
<1>. QED BY <1>1, <1>2, PTL DEF Spec

\* The types of the variables.
THEOREM TypeCorrect == Spec => []TypeOK
<1>1. Init => Typed
  BY Constants DEF Init, Typed, TypeOK, Started, InTraining
<1>2. Typed => TypeOK
  BY DEF Typed
<1>. QED BY <1>1, <1>2, TypedStep, PTL DEF Spec

=============================================================================
