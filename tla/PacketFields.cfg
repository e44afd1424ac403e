CONSTANTS
  Packets <- MCPackets
  Questions <- MCQuestions
SPECIFICATION Spec
INVARIANTS TypeOK AnswersMeanThePacket AskedWithinContract
