SPECIFICATION Spec
CONSTANTS
  d1 = d1
  d2 = d2
  onedriveA = onedriveA
  slackA = slackA
  manual = manual
  urlA = urlA
  urlDecomposed = urlDecomposed
  Docs = {d1, d2}
  NoDoc = NoDoc
  Items = {onedriveA, slackA, manual}
  NoItem = NoItem
  Files = {onedriveA, slackA, manual}
  Urls = {urlA, urlDecomposed}
  NoUrl = NoUrl
  UploadItems = {onedriveA, slackA}
  Ingests = {w1, w2}
  Deletes = {x1}
  Size <- MCSize
  FileOf <- MCFileOf
  UrlOf <- MCUrlOf
  Nfc <- MCNfc
  InitDisk <- MCInitDisk
INVARIANTS
  ChunksShowTheirContent
CHECK_DEADLOCK FALSE
