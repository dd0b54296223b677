------------------------------- MODULE Filter -------------------------------
(***************************************************************************)
(* The controller's Filter (filter.cc): Init reads the weights of the      *)
(* clients from a file or, when that fails, from the option itself, and    *)
(* fills client_index, from which Postman::rand_client draws a client.     *)
(* Valid decides afterwards whether the controller uses the filter.        *)
(*                                                                         *)
(* A number of the input is an integer or NaN, for which stoi throws.      *)
(* start and end are unsigned int: they wrap at UMod.                      *)
(***************************************************************************)
EXTENDS Integers, Sequences, FiniteSets

CONSTANTS
  Inputs,              \* records [file, str] of sequences; NoFile cannot be opened
  NaN, NoFile,
  num_clients,
  kFilterTotalWeight,  \* 100 in the code
  UMod                 \* 2^32 in the code

ASSUME FilterAssumption ==
  /\ num_clients \in Nat \ {0} /\ kFilterTotalWeight \in Nat \ {0}
  /\ UMod \in Nat /\ 2 * kFilterTotalWeight < UMod
  /\ NaN \notin Int

(* The name of a file is not a list with a number for every client: where  *)
(* it is one, a file with a bad line adds to the weights of that list.     *)
ASSUME InputsAssumption ==
  \A in \in Inputs :
    /\ in.str \in Seq(Int \cup {NaN})
    /\ in.file # NoFile =>
         /\ in.file \in Seq(Int \cup {NaN})
         /\ \E k \in 1 .. num_clients : k \in DOMAIN in.str => in.str[k] = NaN

VARIABLES
  input,
  weight,         \* weight[i + 1] is the code's weight[i]; -1 is not set
  total_weight,
  client_index,   \* on 0 .. kFilterTotalWeight - 1, -1 is not set
  i, start,       \* of the loop that fills it
  phase           \* "file", "string", "fill" or "done"

filter_vars == <<input, weight, total_weight, client_index, i, start, phase>>

Clients == 1 .. num_clients
Slots   == 0 .. kFilterTotalWeight - 1

(* The types of the state: every slot that is filled names a client, and   *)
(* start stays an unsigned number.                                         *)
FilterTypeOK ==
  /\ weight \in [Clients -> Int] /\ total_weight \in Int
  /\ client_index \in [Slots -> -1 .. num_clients - 1]
  /\ i \in 0 .. num_clients /\ start \in 0 .. UMod - 1
  /\ phase \in {"file", "string", "fill", "done"}

(* Set resets total_weight, Init both vectors.                             *)
FilterInit ==
  /\ input \in Inputs
  /\ weight = [k \in Clients |-> -1] /\ total_weight = 0
  /\ client_index = [j \in Slots |-> -1]
  /\ i = 0 /\ start = 0 /\ phase = "file"

(* The numbers that the reading loops take: up to num_clients, and up to   *)
(* the first that is none.                                                 *)
Taken(s) == {k \in DOMAIN s \cap Clients : \A l \in 1 .. k : s[l] # NaN}
Throws(s) == \E k \in DOMAIN s \cap Clients : s[k] = NaN

(* Sums(w)[k] is the sum of the first k weights.                           *)
Sums(w) ==
  LET upto[k \in 0 .. num_clients] == IF k = 0 THEN 0 ELSE upto[k - 1] + w[k]
  IN upto

(* The sum of the numbers taken.                                           *)
SumAll(s) ==           \* mutant: numbers beyond num_clients count
  LET upto[k \in 0 .. Len(s)] ==
        IF k = 0 THEN 0 ELSE upto[k - 1] + (IF s[k] # NaN THEN s[k] ELSE 0)
  IN upto[Len(s)]
Sum(s) == Sums([k \in Clients |-> IF k \in Taken(s) THEN s[k] ELSE 0])[num_clients]

Assign(s) ==
  /\ weight' = [k \in Clients |-> IF k \in Taken(s) THEN s[k] ELSE weight[k]]
  /\ total_weight' = total_weight + Sum(s)

(* GetWeightByFile: weights read before a bad line stay.                   *)
GetWeightByFile ==
  /\ phase = "file"
  /\ IF input.file = NoFile
       THEN phase' = "string" /\ UNCHANGED <<weight, total_weight>>
       ELSE /\ Assign(input.file)
            /\ phase' = IF Throws(input.file) THEN "string" ELSE "fill"
  /\ UNCHANGED <<input, client_index, i, start>>

GetWeightByString ==
  /\ phase = "string"
  /\ Assign(input.str)
  /\ phase' = "fill"
  /\ UNCHANGED <<input, client_index, i, start>>

(* One iteration of the filling loop.                                      *)
endInclusive == (start + weight[i + 1] - 1) % UMod     \* mutant: off by one
end == (start + weight[i + 1]) % UMod

FillIndex ==
  /\ phase = "fill" /\ i < num_clients
  /\ client_index' = [j \in Slots |-> IF start <= j /\ j < end THEN i ELSE client_index[j]]
  /\ start' = end /\ i' = i + 1
  /\ UNCHANGED <<input, weight, total_weight, phase>>

Done ==
  /\ phase = "fill" /\ i = num_clients
  /\ phase' = "done"
  /\ UNCHANGED <<input, weight, total_weight, client_index, i, start>>

FilterNext == GetWeightByFile \/ GetWeightByString \/ FillIndex \/ Done

FilterSpec == FilterInit /\ [][FilterNext]_filter_vars

(* ValidateWeight.                                                         *)
Valid == (\A k \in Clients : weight[k] # -1) /\ total_weight = kFilterTotalWeight

-----------------------------------------------------------------------------
(* What the comment in Init shows for [20, 30, 50]: a client's slots are   *)
(* as many as its weight, after those of the clients before it.            *)
Before(k) == Sums(weight)[k]
FillMatchesWeights ==
  phase = "done" /\ Valid /\ (\A k \in Clients : weight[k] >= 0) =>
    \A k \in Clients :
      {j \in Slots : client_index[j] = k - 1} = Before(k - 1) .. Before(k) - 1

(* A filter that Valid accepts has a client in every slot, whatever its    *)
(* weights are, negative ones that make start and end wrap included: the   *)
(* index that rand_client gets is that of a client.  (And the state has    *)
(* its types.)                                                             *)
ValidCovers ==
  /\ FilterTypeOK
  /\ phase = "done" /\ Valid => \A j \in Slots : client_index[j] + 1 \in Clients
=============================================================================
