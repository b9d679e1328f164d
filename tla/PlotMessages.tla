---------------------------- MODULE PlotMessages ----------------------------
(***************************************************************************)
(* The messages that PlotScope sends to gnuplot as text                    *)
(* (src/graphics/scope_messages): PSMsgNSigTxt, a matrix with a column per *)
(* signal, and PSMsgMultiSigTxt, a list of signals with points of their    *)
(* own.  A text is a sequence of lines: <<"plot">>, <<"clause", style,     *)
(* whether a comma and a backslash follow>>, <<"point", x, y>>, <<"e">>    *)
(* and <<"">>.                                                             *)
(***************************************************************************)
EXTENDS Integers, Sequences, SequencesExt

Default == "with lines notitle"

Clause(style, i, n) == <<"clause", style, i < n>>

(* The plot command for some signals, each with its style, and their data.  *)
Text(styles, signals) ==
  <<<<"plot">>>> \o [i \in 1 .. Len(styles) |-> Clause(styles[i], i, Len(styles))]
  \o FlattenSeq([i \in 1 .. Len(signals) |->
                   [j \in 1 .. Len(signals[i]) |-> <<"point">> \o signals[i][j]] \o <<<<"e">>>>])
  \o <<<<"">>>>

(* PSMsgNSigTxt::get_data(): mat is a sequence of rows, with a function     *)
(* from some columns, counted from 0, to their styles.  x_max - x_min is a  *)
(* multiple of the number of rows less one here.                            *)
Refused(mat) == Len(mat) < 2 \/ mat[1] = <<>>

Column(mat, i, x_min, x_max) ==
  [j \in 1 .. Len(mat) |-> <<(j - 1) * ((x_max - x_min) \div (Len(mat) - 1)), mat[j][i]>>]

Style(with, i) == IF i - 1 \in DOMAIN with THEN with[i - 1] ELSE Default

NSigText(mat, with, x_min, x_max) ==
  Text([i \in 1 .. Len(mat[1]) |-> Style(with, i)],
       [i \in 1 .. Len(mat[1]) |-> Column(mat, i, x_min, x_max)])

(* PSMsgMultiSigTxt::get_data(): a signal is [xy_data, with]. *)
MultiSigText(signals) ==
  Text([i \in 1 .. Len(signals) |-> IF signals[i].with = "" THEN Default ELSE signals[i].with],
       [i \in 1 .. Len(signals) |-> signals[i].xy_data])

-----------------------------------------------------------------------------
(* Correctness. *)

(* gnuplot reads clauses as long as one says that there is more, and then   *)
(* points up to an "e" for each.  What it reads are the signals; at the end *)
(* of the text it waits for a command and not for data.                     *)
ReadsAs(text, styles, signals) ==
  LET n    == SelectInSeq(Tail(text), LAMBDA line : line[1] # "clause" \/ ~line[3])
      ends == SetToSortSeq({i \in 1 .. Len(text) : text[i][1] = "e"}, <)
      from(i) == IF i = 1 THEN n + 2 ELSE ends[i - 1] + 1
  IN  /\ n = Len(signals) /\ Len(ends) = n
      /\ \A i \in 1 .. n :
           /\ text[i + 1][2] = styles[i]
           /\ SubSeq(text, from(i), ends[i] - 1) = [j \in 1 .. Len(signals[i]) |-> <<"point">> \o signals[i][j]]
      /\ SubSeq(text, ends[n] + 1, Len(text)) = <<<<"">>>>

(* The columns of a matrix over equidistant points of the interval from 0   *)
(* to x_max.  (From another x_min the axis has the length of the interval   *)
(* but starts at 0 all the same, against psmsgnsig_txt.h:67-68.)            *)
MatrixIsRead ==
  \A rows \in 2 .. 3, cols \in 1 .. 2, step \in 1 .. 2, styled \in SUBSET {0, 1} :
    LET mat    == [j \in 1 .. rows |-> [i \in 1 .. cols |-> 10 * i + j]]
        with   == [i \in styled |-> "with dots"]
        signal == [i \in 1 .. cols |-> [j \in 1 .. rows |-> <<step * (j - 1), 10 * i + j>>]]
    IN  ~Refused(mat) /\ ReadsAs(NSigText(mat, with, 0, step * (rows - 1)),
                                 [i \in 1 .. cols |-> IF i - 1 \in styled THEN "with dots" ELSE Default], signal)

(* The signals of a list, which must not be empty; one of them may be.      *)
ListIsRead ==
  \A lengths \in SeqOf(0 .. 2, 3) \ {<<>>} :
    LET data == [i \in 1 .. Len(lengths) |-> [j \in 1 .. lengths[i] |-> <<j, i>>]]
    IN  ReadsAs(MultiSigText([i \in 1 .. Len(lengths) |-> [xy_data |-> data[i], with |-> IF i = 2 THEN "with dots" ELSE ""]]),
                [i \in 1 .. Len(lengths) |-> IF i = 2 THEN "with dots" ELSE Default], data)

=============================================================================
