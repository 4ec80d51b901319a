---------------------------- MODULE ONNXInference ----------------------------
(***************************************************************************)
(* inference/ONNXInference.cpp: what the engine makes of a model's output. *)
(* Numbers are small integers; of an anchor's class scores only the best   *)
(* counts, since suppression ignores classes.                              *)
(***************************************************************************)
EXTENDS Integers, Sequences, FiniteSets

CONSTANTS Rects,        \* boxes, as <<x, y, width, height>>
          Scores,       \* confidences
          threshold_,
          MaxAnchors,   \* bound: boxes in an output
          MaxBoxes,     \* of which postprocessDetection() looks at the first MaxBoxes
          Sizes         \* of images, <<height, width>>, with what the model divides them by

(* Boxes and confidences are numbers; images have some size.               *)
ASSUME EngineAssumption == /\ Rects \subseteq Int \X Int \X Int \X Int
                           /\ Scores \subseteq Int /\ threshold_ \in Int
                           /\ MaxAnchors \in Nat /\ MaxBoxes \in Nat
                           /\ Sizes \subseteq Nat \X Nat /\ Sizes # {}

VARIABLES modelType, output, imageSize,
          inferred, result     \* infer() has been called, and its result

engineVars == <<modelType, output, imageSize, inferred, result>>

Anchors == [rect : Rects, score : Scores]

EngineInit ==
    /\ modelType \in {"none", "detection", "segmentation"}
    /\ imageSize \in IF modelType = "segmentation" THEN Sizes ELSE {CHOOSE z \in Sizes : TRUE}
    /\ output \in IF modelType = "detection" THEN UNION {[1..n -> Anchors] : n \in 0..MaxAnchors}
                  ELSE {<<>>}
    /\ inferred = FALSE /\ result = <<>>

-----------------------------------------------------------------------------
Lesser(a, b) == IF a < b THEN a ELSE b
Greater(a, b) == IF a < b THEN b ELSE a
Area(r) == r[3] * r[4]

(* The length two rectangles share along axis 1 or 2.                      *)
Shared(r, q, axis) == Greater(0, Lesser(r[axis] + r[axis + 2], q[axis] + q[axis + 2])
                                 - Greater(r[axis], q[axis]))
Overlap(r, q) == Shared(r, q, 1) * Shared(r, q, 2)

(* IoU > 0.5, unless both are empty.                                       *)
Suppresses(r, q) == LET union == Area(r) + Area(q) - Overlap(r, q)
                    IN union > 0 /\ 2 * Overlap(r, q) > union

(* Mutant: only the box kept last suppresses.                              *)
KeepsLast(boxes, order) ==
    LET kept[k \in 0..Len(order)] ==
          IF k = 0 THEN <<>>
          ELSE IF /\ kept[k - 1] # <<>>
                  /\ Suppresses(boxes[kept[k - 1][Len(kept[k - 1])]].rect, boxes[order[k]].rect)
               THEN kept[k - 1] ELSE Append(kept[k - 1], order[k])
    IN kept

(* applyNMS(), of boxes taken in some order: what is kept of the first k.  *)
Keeps(boxes, order) ==
    LET kept[k \in 0..Len(order)] ==
          IF k = 0 THEN <<>>
          ELSE IF \E i \in DOMAIN kept[k - 1] :
                     Suppresses(boxes[kept[k - 1][i]].rect, boxes[order[k]].rect)
               THEN kept[k - 1] ELSE Append(kept[k - 1], order[k])
    IN kept
applyNMS(boxes, order) == Keeps(boxes, order)[Len(order)]

(* std::sort() by confidence, which leaves open the order of equals.       *)
Sorted(boxes, D) ==
    {f \in [1..Cardinality(D) -> D] :
        /\ {f[i] : i \in DOMAIN f} = D
        /\ \A i, j \in DOMAIN f : i < j => boxes[f[i]].score >= boxes[f[j]].score}

(* postprocessDetection(): the boxes that pass the threshold, of the first *)
(* so many.  (A box's confidence is tested too, but a score, a share of    *)
(* the confidence, is the stricter test.)                                  *)
Detected(boxes) ==
    {i \in 1..Lesser(Len(boxes), MaxBoxes) : boxes[i].score > threshold_}

(* postprocessSegmentation(): the shape in which the output is read is     *)
(* guessed from its size, a square first; what is read is resized to the   *)
(* image afterwards, so that a wrong guess shows as a distorted mask.      *)
Square(n) == \E side \in 0..n : side * side = n
MaskShape(size) ==
    LET n == (size[1] \div 4) * (size[2] \div 4)
    IN IF Square(n) THEN LET side == CHOOSE side \in 0..n : side * side = n IN <<side, side>>
       ELSE <<size[1] \div 4, size[2] \div 4>>

(* infer(): nullptr unless initialize() took a model.                      *)
Infer ==
    /\ ~inferred /\ inferred' = TRUE
    /\ \/ modelType = "none" /\ UNCHANGED result
       \/ /\ modelType = "detection"
          /\ \E order \in Sorted(output, Detected(output)) : result' = applyNMS(output, order)
       \/ modelType = "segmentation" /\ result' = MaskShape(imageSize)
    /\ UNCHANGED <<modelType, output, imageSize>>

EngineSpec == EngineInit /\ [][Infer]_engineVars

-----------------------------------------------------------------------------
(* Of the boxes it looks at the engine keeps no two that overlap by more   *)
(* than half, none that is not sure enough, and drops one only for a       *)
(* better one that it keeps (ONNXInference.cpp 334-387); and a mask is     *)
(* read in the shape of its image, unless another shape with as many       *)
(* points is a square - as 320 x 180, for the default 1280 x 720, is       *)
(* (307-317).                                                              *)
KeepsTheBest ==
    /\ modelType = "detection" /\ inferred =>
         LET K == {result[i] : i \in DOMAIN result}
         IN /\ \A i, j \in K : i # j => ~Suppresses(output[i].rect, output[j].rect)
            /\ \A i \in K : output[i].score > threshold_
            /\ \A i \in Detected(output) \ K :
                 \E j \in K : /\ output[j].score >= output[i].score
                              /\ Suppresses(output[j].rect, output[i].rect)
    /\ modelType = "segmentation" /\ inferred =>
         \/ result = <<imageSize[1] \div 4, imageSize[2] \div 4>>
         \/ Square((imageSize[1] \div 4) * (imageSize[2] \div 4))
=============================================================================
