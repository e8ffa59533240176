---------------------------- MODULE MCDetections ----------------------------
(* The post-processings on three boxes in a row, five pixels wide.  The    *)
(* first and the second overlap; so do, by post_process's measure only,    *)
(* the second and the third; the first and the third do not.               *)
EXTENDS Detections

At(x) == [left |-> x, top |-> 0, right |-> x + 4, bottom |-> 4]

Some == {[box |-> At(x), prop |-> p, cls_id |-> 0] :
           x \in {0, 1, 3}, p \in {Conf, Conf + 1}}

(* One that is not sure enough, and one of another class: OBJ_CLASS_NUM is *)
(* 1, but post_process is written for any number of classes.               *)
Others == {[box |-> At(0), prop |-> Conf - 1, cls_id |-> 0],
           [box |-> At(1), prop |-> Conf + 1, cls_id |-> 1]}

SomeAndOthers == Some \cup Others
=============================================================================
