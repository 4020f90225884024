----------------------------- MODULE LinearCost -----------------------------
(***************************************************************************)
(* The execution functions of the projections and activations,             *)
(* src/src/hardware/linear_impl.cpp and activation_impl.cpp: one phase     *)
(* each, none when the input is empty.  Shapes are sequences of dimensions *)
(* and `i` is the LayerInfo.                                               *)
(***************************************************************************)
EXTENDS CostModel

Size(shape) == FoldLeft(LAMBDA a, b : a * b, 1, shape)
UnlessEmpty(shape, phase) == IF Size(shape) = 0 THEN << >> ELSE << phase >>

\* A product of m x k by k x n that moves the tensors of the given sizes.
Product(i, p, m, k, n, moves) ==
  Phase(i, p, 2 * m * k * n, i.precision * (m * k + k * n + m * n), moves)

\* The weights stay where LOGIC or PIM reads them; the activations do not.
FromHost(in, out) == << Read("GPU", in), Write("GPU", out) >>
WithWeight(move, activations) == << activations[1], move, activations[2] >>
NearWeight(i, p, m, k, n, size, activations) ==
  [Product(i, p, m, k, n, WithWeight(GEMV(p, size), activations))
     EXCEPT !.ideal = WithWeight(Read(p, size), activations)]

LinearPhase(i, p, in, w) ==
  IF p = "GPU"
  THEN Product(i, p, in[1], in[2], w[2],
               WithWeight(Read(p, Size(w)), FromHost(Size(in), in[1] * w[2])))
  ELSE NearWeight(i, p, in[1], in[2], w[2], Size(w), FromHost(Size(in), in[1] * w[2]))

LinearExecutionGPU(i, in, w) == UnlessEmpty(in, LinearPhase(i, "GPU", in, w))
LinearExecutionLogic(i, in, w) == UnlessEmpty(in, LinearPhase(i, "LOGIC", in, w))
LinearExecutionPIM(i, in, w) == UnlessEmpty(in, LinearPhase(i, "PIM", in, w))

(* A product for each head: in is heads x m x k and w is heads x k x n.    *)

\* A duplicated input is one m x k tensor for all heads; the ideal memory model
\* sees the tensor's own shape all the same.
BatchedLinearExecutionGPU(i, in, w) ==
  LET heads == in[1]
      m == in[2]
      k == in[3]
      n == w[3]
      input == IF i.duplicated_input THEN m * k ELSE m * k * heads
      moves(size) == << Read("GPU", size), Read("GPU", k * n * heads), Write("GPU", m * n * heads) >>
  IN UnlessEmpty(in,
       [Phase(i, "GPU", 2 * m * k * n * heads,
              i.precision * (input + k * n * heads + m * n * heads), moves(input))
          EXCEPT !.ideal = moves(Size(in))])

\* The dimensions are taken as if the tensors had two: heads x m by . x k.
BatchedNear(i, p, in, w) ==
  UnlessEmpty(in, NearWeight(i, p, in[1], in[2], w[2], Size(w),
                             FromHost(Size(in), in[1] * in[2] * w[3])))

BatchedLinearExecutionLogic(i, in, w) == BatchedNear(i, "LOGIC", in, w)
BatchedLinearExecutionPIM(i, in, w) == BatchedNear(i, "PIM", in, w)

(* The activation reads its gate and its input, the gate as large as the   *)
(* output.  Only LOGIC and PIM count an operation per byte.                *)

ActivationPhase(i, p, in, out, moves) ==
  LET bytes == i.precision * (Size(out) + Size(in) + Size(out))
  IN Phase(i, p, IF p = "GPU" THEN 0 ELSE bytes, bytes, moves)
GateInputOutput(p, in, out) == << Read(p, Size(out)), Read(p, Size(in)), Write(p, Size(out)) >>

ActivationExecutionGPU(i, in, out) ==
  UnlessEmpty(in, ActivationPhase(i, "GPU", in, out, GateInputOutput("GPU", in, out)))

ActivationExecutionLogic(i, in, out) ==
  UnlessEmpty(in,
    [ActivationPhase(i, "LOGIC", in, out,
                     << GEMV("LOGIC", Size(out)), GEMV("LOGIC", Size(in)), GEMV("LOGIC", Size(out)) >>)
       EXCEPT !.ideal = GateInputOutput("LOGIC", in, out)])

ActivationExecutionPIM(i, in, out) ==
  UnlessEmpty(in, ActivationPhase(i, "PIM", in, out, GateInputOutput("PIM", in, out)))
=============================================================================
