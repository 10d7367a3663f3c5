--------------------------- MODULE ScanFunctions ---------------------------
(***************************************************************************)
(* The pure functions of Blelloch.cu and StreamCompaction.cu, by which the *)
(* annotations of the two kernels say what the array holds, and the lemmas *)
(* about them.  Most of the lemmas have no body in the source: the         *)
(* verifier takes them for granted, and a false one would prove anything.  *)
(* A ghost sequence is a sequence; get(xs, n) counts from zero.            *)
(***************************************************************************)
EXTENDS Integers, Sequences

get(xs, n) == xs[n + 1]

\* In the recursive functions below the argument is the number of elements that are gone.

ExpTwo(p) == LET power[i \in 0 .. p] == IF 0 < i THEN 2 * power[i - 1] ELSE 1 IN power[p]

intsum(xs) ==
  LET sum[i \in 0 .. Len(xs)] == IF i < Len(xs) THEN get(xs, i) + sum[i + 1] ELSE 0 IN sum[0]

Take(xs, n) ==
  LET take[i \in 0 .. Len(xs)] == IF i < n THEN <<get(xs, i)>> \o take[i + 1] ELSE <<>> IN take[0]

psum(xs, from) ==
  LET sums[i \in 0 .. Len(xs)] ==
        IF i < Len(xs) THEN <<intsum(Take(xs, i))>> \o sums[i + 1] ELSE <<>>
  IN  sums[from]

psum2(xs) == psum(xs, 0)

\* Sums of neighbours: one level of the tree.
implode(xs) ==
  LET pairs[i \in 0 .. Len(xs)] ==
        IF i + 1 < Len(xs) THEN <<get(xs, i) + get(xs, i + 1)>> \o pairs[i + 2]
        ELSE SubSeq(xs, i + 1, Len(xs))
  IN  pairs[0]

\* One round of the up-sweep, on the whole array from cell i.
up(xs, stride, from) ==
  LET cells[i \in 0 .. Len(xs)] ==
        IF i >= Len(xs) THEN <<>>
        ELSE IF i % (2 * stride) = 2 * stride - 1 /\ i >= stride
             THEN <<get(xs, i) + get(xs, i - stride)>> \o cells[i + 1]
             ELSE <<get(xs, i)>> \o cells[i + 1]
  IN  cells[from]

count(xs) ==
  LET ones[i \in 0 .. Len(xs)] ==
        IF i < Len(xs) THEN (IF get(xs, i) = 1 THEN 1 ELSE 0) + ones[i + 1] ELSE 0
  IN  ones[0]

\* The elements whose flag is set, in order.
compact(input, flags) ==
  LET kept[i \in 0 .. Len(input)] ==
        IF i >= Len(input) THEN <<>>
        ELSE IF get(flags, i) = 1 THEN <<get(input, i)>> \o kept[i + 1]
             ELSE kept[i + 1]
  IN  kept[0]

Flags(xs) == \A i \in DOMAIN xs : xs[i] \in {0, 1}

-----------------------------------------------------------------------------
(* What the contracts of the functions promise. *)

FunctionContracts(xs) ==
  LET n == Len(xs)
  IN  /\ \A p \in 0 .. n : p < ExpTwo(p)
      /\ n = 1 => intsum(xs) = Head(xs)
      /\ \A m \in -1 .. n : /\ Len(Take(xs, m)) = (IF m < 0 THEN 0 ELSE m)
                            /\ \A i \in 0 .. m - 1 : get(xs, i) = get(Take(xs, m), i)
      /\ \A i \in 0 .. n :
           /\ Len(psum(xs, i)) = n - i
           /\ \A j \in 0 .. n - i - 1 : get(psum(xs, i), j) = intsum(Take(xs, i + j))
      /\ n = 2 => implode(xs) = <<xs[1] + xs[2]>>
      /\ n % 2 = 0 => Len(implode(xs)) = n \div 2

UpContract(xs, stride) ==
  \A i \in 0 .. Len(xs) :
    LET result == up(xs, stride, i)
    IN  /\ Len(result) = Len(xs) - i
        /\ \A j \in 0 .. Len(result) - 1 :
             get(result, j) =
               IF i + j >= stride /\ (i + j) % (2 * stride) = 2 * stride - 1
               THEN get(xs, i + j) + get(xs, i + j - stride)
               ELSE get(xs, i + j)

-----------------------------------------------------------------------------
(* The lemmas, each as the statement that its ensures clauses make. *)

lemma_intsum_app(xs, ys) ==
  /\ Len(xs \o ys) = Len(xs) + Len(ys)
  /\ xs # <<>> => intsum(Tail(xs) \o ys) = intsum(Tail(xs)) + intsum(ys)
  /\ intsum(xs \o ys) = intsum(xs) + intsum(ys)

lemma_implode_sum(xs) == intsum(xs) = intsum(implode(xs))

lemma_exp2(n) ==
  /\ ExpTwo(n) > 0
  /\ n > 0 => /\ ExpTwo(n) = 2 * ExpTwo(n - 1)
              /\ ExpTwo(n) \div 2 = ExpTwo(n - 1)

\* lemma_exp2_leq and power_two_lemma
lemma_exp2_order(i, j) ==
  /\ i <= j => ExpTwo(i) <= ExpTwo(j)
  /\ ExpTwo(i) = ExpTwo(j) => i = j

\* lemma_implode_length_mod_two, lemma_implode_red_exp2, lemma_implode_get, lemma_implode_get_all
lemma_implode_get_all(xs) ==
  Len(xs) % 2 = 0 =>
    /\ Len(implode(xs)) = Len(xs) \div 2
    /\ \A i \in 0 .. Len(implode(xs)) - 1 :
         get(implode(xs), i) = get(xs, 2 * i) + get(xs, 2 * i + 1)

lemma_implode_rel(xs, ys) ==
  /\ Len(xs) = 2 * Len(ys)
  /\ \A i \in 0 .. Len(ys) - 1 : get(ys, i) = get(xs, 2 * i) + get(xs, 2 * i + 1)
  => ys = implode(xs)

lemma_psum_get_all(xs) ==
  \A i \in 0 .. Len(xs) - 1 : get(psum2(xs), i) = intsum(Take(xs, i))

\* missing_lemma_2
lemma_take_last(xs, n) == Take(xs, n) = Take(xs, n - 1) \o <<get(xs, n - 1)>>

\* missing_lemma_3
lemma_implode_app(xs, ys) ==
  Len(xs) % 2 = 0 /\ Len(ys) % 2 = 0 => implode(xs \o ys) = implode(xs) \o implode(ys)

\* missing_lemma, lemma_psum_Take2, lemma_get_psum_implode
lemma_get_psum_implode(xs, i) ==
  Len(xs) % 2 = 0 /\ 2 * i < Len(xs) =>
    /\ Take(implode(xs), i) = implode(Take(xs, 2 * i))
    /\ get(psum2(implode(xs)), i) = intsum(Take(xs, 2 * i))
    /\ get(psum2(implode(xs)), i) = get(psum2(xs), 2 * i)

lemma_combine_psum(xs, i) ==
  2 * i + 1 < Len(xs) => get(psum2(xs), 2 * i + 1) = get(psum2(xs), 2 * i) + get(xs, 2 * i)

\* lemma_sum_nonneg, lemma_intsum_positive, lemma_intsum_flag, lemma_take_sum
lemma_take_sum(xs, n) ==
  (\A i \in DOMAIN xs : 0 <= xs[i]) => 0 <= intsum(Take(xs, n)) /\ intsum(Take(xs, n)) <= intsum(xs)

lemma_flags_take_size(xs, n) == Flags(xs) => intsum(Take(xs, n)) < Len(xs)

lemma_sum_pos_flag(xs, n) ==
  Flags(xs) /\ get(xs, n) = 1 => intsum(Take(xs, n)) < intsum(xs)

lemma_correctness(input, flags, n) ==
  Flags(flags) /\ get(flags, n) = 1 =>
    /\ intsum(Take(flags, n)) \in 0 .. Len(flags) - 1
    /\ get(input, n) = get(compact(input, flags), intsum(Take(flags, n)))
    /\ get(input, n) = get(compact(input, flags), get(psum2(flags), n))

-----------------------------------------------------------------------------
\* All of the lemmas that Blelloch.cu states, about a sequence and its parts.
ScanLemmas(xs) ==
  /\ psum2(<<>>) = <<>> /\ intsum(<<>>) = 0
  /\ lemma_implode_sum(xs)
  /\ lemma_implode_get_all(xs)
  /\ lemma_psum_get_all(xs)
  /\ Len(xs) = 1 => psum2(xs) = <<0>> /\ xs = implode(xs)
  /\ \A i, j \in 0 .. Len(xs) : lemma_exp2(i) /\ lemma_exp2_order(i, j)
  /\ \A n \in 1 .. Len(xs) : lemma_take_last(xs, n)
  /\ \A i \in 0 .. Len(xs) - 1 : lemma_get_psum_implode(xs, i) /\ lemma_combine_psum(xs, i)
  /\ \A m \in 0 .. Len(xs) :
       LET front == SubSeq(xs, 1, m)
           back  == SubSeq(xs, m + 1, Len(xs))
       IN  /\ lemma_intsum_app(front, back)
           /\ lemma_implode_app(front, back)
           /\ lemma_implode_rel(xs, front) /\ lemma_implode_rel(front, implode(front))

\* Those that StreamCompaction.cu adds.
CompactionLemmas(input, flags) ==
  \A n \in 0 .. Len(flags) - 1 :
    /\ lemma_take_sum(flags, n)
    /\ lemma_flags_take_size(flags, n)
    /\ lemma_sum_pos_flag(flags, n)
    /\ lemma_correctness(input, flags, n)
=============================================================================
