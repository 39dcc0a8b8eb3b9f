------------------------------ MODULE TxFormat ------------------------------
(***************************************************************************)
(* What the user reads: the formatters of ui/tx_format.c and               *)
(* address_format.c, and the order in which                                *)
(* ui_display_transaction_bs_choice (ui/nbgl_display_transaction.c) fills  *)
(* the pages of the review from a decoded transaction.                     *)
(*                                                                         *)
(* Integers are big-endian byte sequences, as zond_tx_t keeps them.  A     *)
(* text is a sequence of characters: 0 to 9 for the digits, Dot for the    *)
(* decimal point; the closing NUL is counted where the code counts it.     *)
(* The fixed "QRL " in front of amounts is left out.                       *)
(***************************************************************************)
EXTENDS Integers, Sequences, SequencesExt

CONSTANTS Txs,       \* decoded transactions
          Addresses, \* addresses of the device
          Masks      \* what SHAKE-256 may return for an address text

TX_FORMAT_MAX_INTEGER_BYTES  == 40
\* Mutant: room for 96 digits, as many as 2^320 has without the first.
DecimalDigitsShort == 96
TX_FORMAT_MAX_DECIMAL_DIGITS == 97
TX_FORMAT_MAX_AMOUNT_LEN     == 100

Dot == 10
Fail == [ok |-> FALSE, out |-> <<>>]
Return(out) == [ok |-> TRUE, out |-> out]

-----------------------------------------------------------------------------
(* uint8_array_to_decimal *)

\* One pass of the inner loop: bytes[i..] is divided by 10, the remainder r
\* coming from the left; done holds the quotient's bytes so far.
RECURSIVE Divide(_, _, _, _)
Divide(bytes, i, r, done) ==
    IF i > Len(bytes) THEN [quotient |-> done, remainder |-> r]
    ELSE LET val == r * 256 + bytes[i]
         IN  Divide(bytes, i + 1, val % 10, Append(done, val \div 10))

IsZero(bytes) == \A i \in DOMAIN bytes : bytes[i] = 0

\* The outer loop: digits are written from the right end of result; index is
\* the room that is left in front of them.
RECURSIVE Digits(_, _, _)
Digits(temp, index, text) ==
    LET d == Divide(temp, 1, 0, <<>>) IN
    IF index = 0 THEN Fail
    ELSE IF IsZero(d.quotient) THEN Return(<<d.remainder>> \o text)
    ELSE Digits(d.quotient, index - 1, <<d.remainder>> \o text)

uint8_array_to_decimal(bytes, out_len) ==
    IF out_len = 0 \/ Len(bytes) > TX_FORMAT_MAX_INTEGER_BYTES THEN Fail
    ELSE LET r == Digits(bytes, TX_FORMAT_MAX_DECIMAL_DIGITS, <<>>)
         IN  IF r.ok /\ Len(r.out) + 1 > out_len THEN Fail ELSE r

-----------------------------------------------------------------------------
(* format_with_decimals and format_qrl_amount *)

Zeros(n) == [i \in 1 .. n |-> 0]

\* Trailing zeros are cut, then a point that would end the text.
RECURSIVE Trim(_)
Trim(text) == IF text = <<>> \/ Last(text) \notin {0, Dot} THEN text
              ELSE IF Last(text) = Dot THEN Front(text)
              ELSE Trim(Front(text))

format_with_decimals(raw, decimals, out_len) ==
    LET len == Len(raw)
        leading == IF len < decimals THEN decimals - len ELSE 0
        needed == (IF len > decimals THEN len - decimals ELSE 1) + 1 + leading
                     + (IF len > decimals THEN decimals ELSE len) + 1
        text == IF len <= decimals
                THEN <<0, Dot>> \o Zeros(leading) \o raw
                ELSE SubSeq(raw, 1, len - decimals) \o <<Dot>>
                        \o SubSeq(raw, len - decimals + 1, len)
    IN  IF out_len = 0 THEN Fail
        ELSE IF decimals = 0
             THEN IF len + 1 > out_len THEN Fail ELSE Return(raw)
        ELSE IF needed > out_len THEN Fail
        ELSE Return(Trim(text))

format_qrl_amount(amount, out_len) ==
    LET decimal == uint8_array_to_decimal(amount, TX_FORMAT_MAX_DECIMAL_DIGITS + 1)
    IN  IF ~decimal.ok THEN Fail
        ELSE format_with_decimals(decimal.out, 18, out_len)

-----------------------------------------------------------------------------
(* multiply_uint8_arrays *)

SumOver(S, f(_)) == FoldSet(LAMBDA x, y : f(x) + y, 0, S)

\* accum[k], k counted from 1 at the left: the products of the digits whose
\* places, counted from the right, add up to full_len - k.
Columns(a, b) ==
    LET full == Len(a) + Len(b) IN
    [k \in 1 .. full |->
        SumOver({i \in 0 .. Len(a) - 1 : full - k - i \in 0 .. Len(b) - 1},
                LAMBDA i : a[Len(a) - i] * b[Len(b) - (full - k - i)])]

\* Mutant: a column passes on at most one byte.
RECURSIVE CarryByte(_, _)
CarryByte(accum, i) ==
    IF i = 1 THEN [accum EXCEPT ![1] = accum[1] % 256]
    ELSE CarryByte([accum EXCEPT ![i - 1] = @ + ((accum[i] \div 256) % 256),
                                 ![i] = @ % 256], i - 1)

\* The carries go from the right to the left; the leftmost column keeps what it
\* gets, and is cast to a byte when it is copied out.
RECURSIVE Carry(_, _)
Carry(accum, i) ==
    IF i = 1 THEN [accum EXCEPT ![1] = accum[1] % 256]
    ELSE Carry([accum EXCEPT ![i - 1] = @ + (accum[i] \div 256),
                             ![i] = @ % 256], i - 1)

CarryBytes(accum) == CarryByte(accum, Len(accum))
CarryAll(accum) == Carry(accum, Len(accum))

\* Leading zero bytes are dropped, the last byte never.
RECURSIVE DropZeros(_)
DropZeros(bytes) == IF Len(bytes) > 1 /\ bytes[1] = 0 THEN DropZeros(Tail(bytes))
                                                      ELSE bytes

multiply_uint8_arrays(a, b, out_len) ==
    IF Len(a) + Len(b) > TX_FORMAT_MAX_INTEGER_BYTES THEN Fail
    ELSE IF Len(a) + Len(b) = 0
         THEN IF out_len < 1 THEN Fail ELSE Return(<<0>>)
    ELSE LET product == DropZeros(CarryAll(Columns(a, b)))
         IN  IF Len(product) > out_len THEN Fail ELSE Return(product)

-----------------------------------------------------------------------------
(* format_checksummed_address *)

Nibbles(bytes) == [i \in 1 .. 2 * Len(bytes) |->
                      IF i % 2 = 1 THEN bytes[(i + 1) \div 2] \div 16
                                   ELSE bytes[i \div 2] % 16]

\* Each hexadecimal letter is a capital where the mask's nibble is 8 or more.
format_checksummed_address(address, mask) ==
    [i \in 1 .. 2 * Len(address) |->
        [nibble |-> Nibbles(address)[i],
         capital |-> Nibbles(address)[i] >= 10 /\ Nibbles(mask)[i] >= 8]]

-----------------------------------------------------------------------------
(* The review *)

VARIABLES tx, address, mask,  \* what is shown; mask stands for SHAKE-256
          display_nonce, display_tx_hash,
          step,               \* the next thing ui_display_transaction does
          pages,              \* the formatted texts, by buffer
          pairs,              \* pairs[]: the buffers shown, in order
          answer              \* "none", "review" or the status word sent

vars == <<tx, address, mask, display_nonce, display_tx_hash, step, pages, pairs, answer>>

Init ==
    /\ tx \in Txs
    /\ address \in Addresses
    /\ mask \in Masks
    /\ display_nonce \in BOOLEAN
    /\ display_tx_hash \in BOOLEAN
    /\ step = "from"
    /\ pages = <<>>
    /\ pairs = <<>>
    /\ answer = "none"

Inputs == <<tx, address, mask, display_nonce, display_tx_hash>>

AmountFails ==
    /\ answer' = "SW_DISPLAY_AMOUNT_FAIL"
    /\ step' = "done"
    /\ UNCHANGED <<Inputs, pages, pairs>>

\* The texts go to their buffers when all of them could be written; named is
\* a function from buffers to results.
Show(named, next) ==
    IF \A b \in DOMAIN named : named[b].ok
    THEN /\ pages' = [b \in DOMAIN named \cup DOMAIN pages |->
                         IF b \in DOMAIN named THEN named[b].out ELSE pages[b]]
         /\ step' = next
         /\ UNCHANGED <<Inputs, pairs, answer>>
    ELSE AmountFails

\* Addresses have one length, so formatting them does not fail.
ShowFrom ==
    /\ step = "from"
    /\ Show([from |-> Return(format_checksummed_address(address, mask))], "amount")

ShowAmountAndTo ==
    /\ step = "amount"
    /\ Show([amount |-> format_qrl_amount(tx.value, TX_FORMAT_MAX_AMOUNT_LEN),
             to |-> Return(format_checksummed_address(tx.to, mask))], "fees")

ShowFees ==
    /\ step = "fees"
    /\ LET product == multiply_uint8_arrays(tx.gas_fee_cap, tx.gas,
                                            TX_FORMAT_MAX_INTEGER_BYTES)
       IN  Show([max_fees |->
                   IF product.ok
                   THEN format_qrl_amount(product.out, TX_FORMAT_MAX_AMOUNT_LEN)
                   ELSE Fail], "numbers")

ShowNumbers ==
    /\ step = "numbers"
    /\ Show([chain_id |-> uint8_array_to_decimal(tx.chain_id,
                                TX_FORMAT_MAX_DECIMAL_DIGITS + 1),
             gas_limit |-> uint8_array_to_decimal(tx.gas, 21),
             gas_tip_cap |-> format_qrl_amount(tx.gas_tip_cap,
                                TX_FORMAT_MAX_AMOUNT_LEN)], "nonce")

ShowNonce ==
    /\ step = "nonce"
    /\ IF display_nonce
       THEN Show([nonce |-> uint8_array_to_decimal(tx.nonce, 21)], "list")
       ELSE Show([b \in {} |-> Fail], "list")

\* pairs[] has nine entries.
ShowPairs ==
    /\ step = "list"
    /\ pairs' = <<"from", "amount", "to", "chain_id", "gas_limit", "gas_tip_cap",
                  "max_fees">>
                \o (IF display_nonce THEN <<"nonce">> ELSE <<>>)
                \o (IF display_tx_hash THEN <<"tx_hash">> ELSE <<>>)
    /\ pages' = IF display_tx_hash
                THEN [b \in DOMAIN pages \cup {"tx_hash"} |->
                         IF b = "tx_hash" THEN Nibbles(tx.m_hash) ELSE pages[b]]
                ELSE pages
    /\ answer' = "review"
    /\ step' = "done"
    /\ UNCHANGED Inputs

Next == ShowFrom \/ ShowAmountAndTo \/ ShowFees \/ ShowNumbers \/ ShowNonce \/ ShowPairs

Spec == Init /\ [][Next]_vars

-----------------------------------------------------------------------------
(* Reading a text back, independently of how it was written *)

\* n * k + c on big-endian byte sequences of any length, for k, c < 2^16.
RECURSIVE MulAdd(_, _, _)
MulAdd(n, k, c) ==
    IF n = <<>>
    THEN IF c = 0 THEN <<>> ELSE MulAdd(<<>>, k, c \div 256) \o <<c % 256>>
    ELSE LET low == Last(n) * k + c
         IN  Append(MulAdd(Front(n), k, low \div 256), low % 256)

\* The number without leading zero bytes.
RECURSIVE Plain(_)
Plain(n) == IF n # <<>> /\ n[1] = 0 THEN Plain(Tail(n)) ELSE n

\* Horner's rule over the digits.
RECURSIVE ValueOf(_)
ValueOf(digits) == IF digits = <<>> THEN <<>>
                   ELSE MulAdd(ValueOf(Front(digits)), 10, Last(digits))

\* A decimal fraction read back in units of 10^-18.
FractionDigits(text) ==
    LET places == {i \in DOMAIN text : text[i] = Dot}
        d == IF places = {} THEN Len(text) + 1 ELSE CHOOSE i \in places : TRUE
        whole == SubSeq(text, 1, d - 1)
        part == SubSeq(text, d + 1, Len(text))
    IN  whole \o part \o Zeros(18 - Len(part))

Denotes(text, n) == Plain(ValueOf(text)) = Plain(n)
DenotesAmount(text, n) == Plain(ValueOf(FractionDigits(text))) = Plain(n)

\* The sum of two numbers and a carry.
RECURSIVE Add(_, _, _)
Add(x, y, c) ==
    IF x = <<>> THEN MulAdd(y, 1, c)
    ELSE IF y = <<>> THEN MulAdd(x, 1, c)
    ELSE LET low == Last(x) + Last(y) + c
         IN  Append(Add(Front(x), Front(y), low \div 256), low % 256)

\* The product of two numbers, a byte of the second at a time.
RECURSIVE Product(_, _)
Product(a, b) == IF b = <<>> THEN <<>>
                 ELSE Add(Append(Product(a, Front(b)), 0), MulAdd(a, Last(b), 0), 0)

\* Two digits of a hexadecimal text, whatever their case, are a byte.
FromNibbles(ns) == [i \in 1 .. Len(ns) \div 2 |-> 16 * ns[2 * i - 1] + ns[2 * i]]
AddressOf(text) == FromNibbles([i \in DOMAIN text |-> text[i].nibble])

-----------------------------------------------------------------------------
(* Properties *)

\* Whatever decode_ledger_tx accepts can be put on the screen: no field is too
\* long for the buffers of ui_display_transaction_bs_choice, the fee of 40
\* bytes and 97 digits included.
EveryDecodedTxIsShown == answer # "SW_DISPLAY_AMOUNT_FAIL"

\* A user who reads the pages of the review reads the transaction: each text,
\* read back by ordinary arithmetic, is the field it was made from, amounts in
\* units of 10^-18, and the maximal fee is the gas limit times the fee cap.
ReviewReadsBack ==
    answer = "review" =>
        /\ AddressOf(pages.from) = address
        /\ AddressOf(pages.to) = tx.to
        /\ DenotesAmount(pages.amount, tx.value)
        /\ DenotesAmount(pages.max_fees, Product(tx.gas_fee_cap, tx.gas))
        /\ DenotesAmount(pages.gas_tip_cap, tx.gas_tip_cap)
        /\ Denotes(pages.chain_id, tx.chain_id)
        /\ Denotes(pages.gas_limit, tx.gas)
        /\ display_nonce => Denotes(pages.nonce, tx.nonce)
        /\ display_tx_hash => FromNibbles(pages.tx_hash) = tx.m_hash
        /\ \A i \in 1 .. Len(pairs) : pairs[i] \in DOMAIN pages

\* A number has one text: no needless zero in front or, in a fraction, behind,
\* and no point without digits on both sides.  Together with ReviewReadsBack,
\* two amounts look alike only when they are equal.
TextsAreCanonical ==
    \A b \in DOMAIN pages \ {"from", "to", "tx_hash"} :
        LET t == pages[b]
            points == {i \in DOMAIN t : t[i] = Dot}
        IN  /\ t # <<>>
            /\ t[1] = 0 => Len(t) = 1 \/ t[2] = Dot
            /\ points # {} => /\ Last(t) \notin {0, Dot}
                              /\ t[1] # Dot
=============================================================================
