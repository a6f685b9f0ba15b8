---------------------------- MODULE ChessEngine ----------------------------
(***************************************************************************)
(* The rules of packages/chess-engine: attacks, pseudo-legal and legal     *)
(* moves, castling, promotion, check, mate, stalemate and move notation.   *)
(* They are pure functions of a position.  A square is its row and column, *)
(* row 0 being the eighth rank and column 0 the a-file, and has a name of  *)
(* two characters; a FEN symbol is a colour (its case) and a type; a board *)
(* is a partial function from squares to symbols, as the plain object of   *)
(* the code is; a list of squares or of moves is the set of its elements.  *)
(***************************************************************************)
EXTENDS Integers, Sequences, FiniteSetsExt, Functions

Squares == (0..7) \X (0..7)
NoSquare == <<>>

Files == <<"a", "b", "c", "d", "e", "f", "g", "h">>
Ranks == <<"1", "2", "3", "4", "5", "6", "7", "8">>

fileOf(square) == Files[square[2] + 1]
rankOf(square) == Ranks[8 - square[1]]
coordsToAlgebraic(square) == <<fileOf(square), rankOf(square)>>

algebraicToCoords(file, rank) ==
  CHOOSE s \in Squares : coordsToAlgebraic(s) = <<file, rank>>

isInBounds(square) == square[1] \in 0..7 /\ square[2] \in 0..7

Symbols == {"w", "b"} \X {"P", "N", "B", "R", "Q", "K"}
getPieceColor(piece) == piece[1]
pieceType(piece) == piece[2]
getOpponentColor(color) == IF color = "w" THEN "b" ELSE "w"

\* The position field of a FEN, split at "/": a digit skips that many files,
\* an upper case letter is a white piece.
fenToBoardObject(rows) ==
  LET Char(i, j) == SubSeq(rows[i], j, j)
      Digit(i, j) == \E n \in 1..8 : Ranks[n] = Char(i, j)
      Width(i, j) == IF Digit(i, j) THEN CHOOSE n \in 1..8 : Ranks[n] = Char(i, j) ELSE 1
      Col(i, j) == MapThenSumSet(LAMBDA k : Width(i, k), 1..j - 1)
      White == [P |-> "P", N |-> "N", B |-> "B", R |-> "R", Q |-> "Q", K |-> "K"]
      Black == [p |-> "P", n |-> "N", b |-> "B", r |-> "R", q |-> "Q", k |-> "K"]
      Piece(char) == IF char \in DOMAIN White THEN <<"w", White[char]>> ELSE <<"b", Black[char]>>
      Letters == UNION {{<<i, j>> : j \in {k \in 1..Len(rows[i]) : ~Digit(i, k)}} : i \in 1..8}
      Place == [p \in Letters |-> <<p[1] - 1, Col(p[1], p[2])>>]
  IN [s \in Range(Place) |->
       LET p == CHOOSE q \in Letters : Place[q] = s IN Piece(Char(p[1], p[2]))]

-----------------------------------------------------------------------------
(***************************************************************************)
(* Geometry                                                                *)
(***************************************************************************)
\* Mutant: the steps of one rank downwards are forgotten.
KNIGHT_OFFSETS_Missing == ({-2, 2} \X {-1, 1}) \cup ({-1} \X {-2, 2})

KNIGHT_OFFSETS == ({-2, 2} \X {-1, 1}) \cup ({-1, 1} \X {-2, 2})
KING_OFFSETS == ((-1..1) \X (-1..1)) \ {<<0, 0>>}
ROOK_DIRECTIONS == {<<-1, 0>>, <<1, 0>>, <<0, -1>>, <<0, 1>>}
BISHOP_DIRECTIONS == {-1, 1} \X {-1, 1}
QUEEN_DIRECTIONS == ROOK_DIRECTIONS \cup BISHOP_DIRECTIONS

\* The place n steps of d away from a square; it may be off the board.
Along(square, d, n) == <<square[1] + n * d[1], square[2] + n * d[2]>>

Empty(board, square) == square \notin DOMAIN board
Holds(board, square, piece) == ~Empty(board, square) /\ board[square] = piece
Owns(board, square, color) == ~Empty(board, square) /\ getPieceColor(board[square]) = color
Men(board, color) == {s \in DOMAIN board : getPieceColor(board[s]) = color}

\* Nothing stands between a square and the place n steps of d away.
Clear(board, square, d, n) == \A m \in 1..n - 1 : Empty(board, Along(square, d, m))

Forward(color) == IF color = "w" THEN -1 ELSE 1

-----------------------------------------------------------------------------
(***************************************************************************)
(* attacks.js                                                              *)
(***************************************************************************)
stepAttacksSquare(s, offsets, target) == \E d \in offsets : Along(s, d, 1) = target

\* Mutant: the ray goes through pieces of the attacker's own colour.
slideAttacksSquare_XRay(board, s, directions, target) ==
  \E d \in directions : \E n \in 1..7 :
    Along(s, d, n) = target /\ \A m \in 1..n - 1 : ~Owns(board, Along(s, d, m), getPieceColor(board[s]))

slideAttacksSquare(board, s, directions, target) ==
  \E d \in directions : \E n \in 1..7 : Along(s, d, n) = target /\ Clear(board, s, d, n)

pawnAttacksSquare(s, color, target) ==
  target[1] = s[1] + Forward(color) /\ target[2] - s[2] \in {-1, 1}

isSquareAttacked(board, square, byColor) ==
  \E s \in Men(board, byColor) :
    LET type == pieceType(board[s]) IN
    \/ type = "P" /\ pawnAttacksSquare(s, byColor, square)
    \/ type = "N" /\ stepAttacksSquare(s, KNIGHT_OFFSETS, square)
    \/ type = "K" /\ stepAttacksSquare(s, KING_OFFSETS, square)
    \/ type = "R" /\ slideAttacksSquare(board, s, ROOK_DIRECTIONS, square)
    \/ type = "B" /\ slideAttacksSquare(board, s, BISHOP_DIRECTIONS, square)
    \/ type = "Q" /\ slideAttacksSquare(board, s, QUEEN_DIRECTIONS, square)

-----------------------------------------------------------------------------
(***************************************************************************)
(* pseudoMoves.js                                                          *)
(***************************************************************************)
getSteppingMoves(board, square, offsets, color) ==
  {s \in {Along(square, d, 1) : d \in offsets} : isInBounds(s) /\ ~Owns(board, s, color)}

getSlidingMoves(board, square, directions, color) ==
  UNION {{Along(square, d, n) : n \in {k \in 1..7 :
            LET s == Along(square, d, k)
            IN isInBounds(s) /\ ~Owns(board, s, color) /\ Clear(board, square, d, k)}}
         : d \in directions}

getPawnMoves(board, square, color, enPassantTarget) ==
  LET ahead == <<Forward(color), 0>>
      startRow == IF color = "w" THEN 6 ELSE 1
      reach == IF square[1] = startRow THEN 2 ELSE 1
      steps == {n \in 1..reach : isInBounds(Along(square, ahead, n)) /\ Clear(board, square, ahead, n + 1)}
      captures == {Along(square, <<Forward(color), dCol>>, 1) : dCol \in {-1, 1}}
  IN {Along(square, ahead, n) : n \in steps}
     \cup {s \in captures : /\ isInBounds(s)
                            /\ \/ Owns(board, s, getOpponentColor(color))
                               \/ s = enPassantTarget /\ Empty(board, s)}

getPseudoLegalMoves(board, square, enPassantTarget) ==
  LET color == getPieceColor(board[square])
      type == pieceType(board[square])
  IN IF type = "P" THEN getPawnMoves(board, square, color, enPassantTarget)
     ELSE IF type = "N" THEN getSteppingMoves(board, square, KNIGHT_OFFSETS, color)
     ELSE IF type = "K" THEN getSteppingMoves(board, square, KING_OFFSETS, color)
     ELSE IF type = "R" THEN getSlidingMoves(board, square, ROOK_DIRECTIONS, color)
     ELSE IF type = "B" THEN getSlidingMoves(board, square, BISHOP_DIRECTIONS, color)
     ELSE getSlidingMoves(board, square, QUEEN_DIRECTIONS, color)

-----------------------------------------------------------------------------
(***************************************************************************)
(* legalMoves.js                                                           *)
(***************************************************************************)
findKingSquare(board, color) ==
  LET kings == {s \in DOMAIN board : board[s] = <<color, "K">>}
  IN IF kings = {} THEN NoSquare ELSE CHOOSE s \in kings : TRUE

\* A capture in passing takes the pawn beside the mover, not one on `to`.
simulateMove(board, from, to, enPassantTarget) ==
  LET inPassing == /\ pieceType(board[from]) = "P"
                   /\ to = enPassantTarget /\ Empty(board, to)
      gone == {from} \cup IF inPassing THEN {<<from[1], to[2]>>} ELSE {}
  IN [s \in (DOMAIN board \cup {to}) \ gone |-> IF s = to THEN board[from] ELSE board[s]]

\* Mutant: the optional enPassantTarget is not passed on.
filterByKingSafety_NoTarget(board, from, pseudoMoves, color, enPassantTarget) ==
  {to \in pseudoMoves :
     LET after == simulateMove(board, from, to, NoSquare)
         kingSquare == findKingSquare(after, color)
     IN kingSquare # NoSquare => ~isSquareAttacked(after, kingSquare, getOpponentColor(color))}

filterByKingSafety(board, from, pseudoMoves, color, enPassantTarget) ==
  {to \in pseudoMoves :
     LET after == simulateMove(board, from, to, enPassantTarget)
         kingSquare == findKingSquare(after, color)
     IN kingSquare # NoSquare => ~isSquareAttacked(after, kingSquare, getOpponentColor(color))}

\* Mutant: only the square the king lands on must be safe.
Castlings_LandOnly ==
  [K |-> [clear |-> {"f", "g"}, path |-> {"g"}, land |-> "g", rook |-> "h", beside |-> "f"],
   Q |-> [clear |-> {"b", "c", "d"}, path |-> {"c"}, land |-> "c", rook |-> "a", beside |-> "d"]]

\* Each castling: the files that must be empty, those the king passes and
\* lands on, where it lands, and where its rook stands and goes to.
Castlings ==
  [K |-> [clear |-> {"f", "g"}, path |-> {"f", "g"}, land |-> "g", rook |-> "h", beside |-> "f"],
   Q |-> [clear |-> {"b", "c", "d"}, path |-> {"c", "d"}, land |-> "c", rook |-> "a", beside |-> "d"]]

\* The square of this file on the first rank of a colour.
Home(file, color) == algebraicToCoords(file, IF color = "w" THEN "1" ELSE "8")

getCastlingMoves(board, color, castlingRights) ==
  LET Safe(square) == ~isSquareAttacked(board, square, getOpponentColor(color))
      Possible(side) ==
        /\ castlingRights[<<color, side>>]
        /\ \A f \in Castlings[side].clear : Empty(board, Home(f, color))
        /\ Holds(board, Home(Castlings[side].rook, color), <<color, "R">>)
        /\ \A f \in Castlings[side].path : Safe(Home(f, color))
  IN {Home(Castlings[side].land, color) : side \in {s \in DOMAIN Castlings :
        Holds(board, Home("e", color), <<color, "K">>) /\ Safe(Home("e", color)) /\ Possible(s)}}

-----------------------------------------------------------------------------
(***************************************************************************)
(* promotion.js, gameStatus.js, notation.js                                *)
(***************************************************************************)
PROMOTION_PIECES == {"Q", "R", "B", "N"}

\* Mutant: the last rank is the eighth for both colours.
requiresPromotion_WhiteOnly(piece, to) == pieceType(piece) = "P" /\ rankOf(to) = "8"

requiresPromotion(piece, to) ==
  pieceType(piece) = "P" /\ rankOf(to) = IF getPieceColor(piece) = "w" THEN "8" ELSE "1"

resolvePromotionPiece(piece, promotion) == <<getPieceColor(piece), promotion>>

isCheck(board, color) ==
  LET kingSquare == findKingSquare(board, color)
  IN kingSquare # NoSquare /\ isSquareAttacked(board, kingSquare, getOpponentColor(color))

legalMoves(game, square) ==
  filterByKingSafety(game.board, square,
    getPseudoLegalMoves(game.board, square, game.enPassantTarget),
    getPieceColor(game.board[square]), game.enPassantTarget)

\* Mutant: captures in passing are forgotten.
getAllLegalMoves_NoEnPassant(game, color) ==
  UNION {{[from |-> s, to |-> to] : to \in legalMoves([game EXCEPT !.enPassantTarget = NoSquare], s)}
         : s \in Men(game.board, color)}

getAllLegalMoves(game, color) ==
  UNION {{[from |-> s, to |-> to] : to \in legalMoves(game, s) \cup
            IF pieceType(game.board[s]) = "K"
              THEN getCastlingMoves(game.board, color, game.castlingRights) ELSE {}}
         : s \in Men(game.board, color)}

isCheckmate(game, color) == isCheck(game.board, color) /\ getAllLegalMoves(game, color) = {}
isStalemate(game, color) == ~isCheck(game.board, color) /\ getAllLegalMoves(game, color) = {}

\* Mutant: the file alone always tells two pieces apart.
getDisambiguation_File(game, move) ==
  IF \E m \in getAllLegalMoves(game, getPieceColor(move.piece)) :
       m.to = move.to /\ m.from # move.from /\ game.board[m.from] = move.piece
    THEN <<fileOf(move.from)>> ELSE <<>>

getDisambiguation(game, move) ==
  LET other == {m.from : m \in {n \in getAllLegalMoves(game, getPieceColor(move.piece)) :
                  /\ n.to = move.to /\ n.from # move.from
                  /\ pieceType(game.board[n.from]) = pieceType(move.piece)}}
      sameFile == \E s \in other : fileOf(s) = fileOf(move.from)
      sameRank == \E s \in other : rankOf(s) = rankOf(move.from)
  IN IF pieceType(move.piece) \in {"P", "K"} \/ other = {} THEN <<>>
     ELSE IF ~sameFile THEN <<fileOf(move.from)>>
     ELSE IF ~sameRank THEN <<rankOf(move.from)>>
     ELSE coordsToAlgebraic(move.from)

If(condition, text) == IF condition THEN text ELSE <<>>

\* The move as the sequence of its characters; status is that of the opponent.
buildSan(game, move, status) ==
  LET type == pieceType(move.piece)
      takes == If(move.captured, <<"x">>)
      text ==
        IF move.castling = "K" THEN <<"O-O">>
        ELSE IF move.castling = "Q" THEN <<"O-O-O">>
        ELSE IF type = "P"
          THEN If(move.captured, <<fileOf(move.from)>>) \o takes \o coordsToAlgebraic(move.to)
               \o If(move.promotion # "no", <<"=", move.promotion>>)
          ELSE <<type>> \o getDisambiguation(game, move) \o takes \o coordsToAlgebraic(move.to)
  IN text \o If(status.isCheckmate, <<"#">>) \o If(status.isCheck /\ ~status.isCheckmate, <<"+">>)
=============================================================================
