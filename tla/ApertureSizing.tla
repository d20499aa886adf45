--------------------------- MODULE ApertureSizing ---------------------------
(***************************************************************************)
(* How many bytes the capture ring gets and how far max_num_batched_tokens *)
(* is lowered so that one step's capture fits the GPU memory vLLM leaves   *)
(* free (aperture_sizing.py, its callers in _plugin.py and install_hs.py). *)
(*                                                                         *)
(* free is the margin (1 - gpu_memory_utilization) * total, rounded down;  *)
(* near is the same margin rounded to the nearest byte, as the cap takes   *)
(* it; b is the bytes one token costs over every captured layer; aperture  *)
(* the default size, or the one MIA_APERTURE_GPU_BYTES asks for.  A cap or *)
(* a size the code leaves None is 0, which no cap and no size is.          *)
(***************************************************************************)
EXTENDS Integers

None == 0
Larger(a, b) == IF a >= b THEN a ELSE b

\* MiaSizingError, and an answer.
SizingFails == [ok |-> FALSE]
Sized(n) == [ok |-> TRUE, value |-> n]

\* model_sized_aperture_bytes
ModelSized(rows, rowBytes) == IF rows <= 0 \/ rowBytes <= 0 THEN None ELSE rows * rowBytes

\* resolve_aperture_bytes_fixed, resolve_aperture_bytes_auto
Fixed(free, bytes) == IF bytes > free THEN SizingFails ELSE Sized(bytes)
ApertureBytes(free, aperture, explicit, need) ==
  Fixed(free, IF explicit THEN aperture ELSE Larger(aperture, need))

\* _resolve_aperture_rows: the ring's rows per layer, for steps of at most cap
\* tokens over layers of rowBytes each.
RingRows(free, aperture, explicit, cap, layers, rowBytes) ==
  LET bytes == ApertureBytes(free, aperture, explicit, ModelSized(cap, layers * rowBytes))
      rows == bytes.value \div (layers * rowBytes)
  IN IF ~bytes.ok THEN SizingFails ELSE IF rows < 1 THEN SizingFails ELSE Sized(rows)

\* compute_safe_max_batched_tokens: beside a ring of fixed size.
CapBeside(near, aperture, b, safety, headroom) ==
  LET margin == near - aperture - headroom
  IN IF margin <= 0 \/ b <= 0 \/ safety <= 0 THEN None ELSE margin \div (b * safety)

\* safe_cap_with_model_sized_aperture: when the ring grows with the cap.
CapGrowing(near, aperture, b, safety, headroom) ==
  LET margin == near - headroom
      grown == margin \div (b * (safety + 1))
  IN IF b <= 0 \/ margin <= 0 \/ safety <= 0 THEN None
     ELSE IF grown * b > aperture THEN grown ELSE aperture \div b

\* _derive_safe_max_batched_tokens, for one capturing subsystem
DerivedCap(free, near, aperture, explicit, b, safety, headroom) ==
  LET beside == CapBeside(near, aperture, b, safety, headroom)
  IN IF ~Fixed(free, aperture).ok THEN SizingFails
     ELSE IF beside # None /\ ~explicit /\ beside * b > aperture
          THEN Sized(CapGrowing(near, aperture, b, safety, headroom))
          ELSE Sized(beside)

\* apply_min_only: the budget the scheduler ends with.
Lowered(current, safe) == IF safe # None /\ safe < current THEN safe ELSE current

=============================================================================
