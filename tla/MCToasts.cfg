SPECIFICATION ToastsFairSpec
CONSTANTS
  x = x
  y = y
  c1 = c1
  c2 = c2
  c3 = c3
  Amounts = {x, y}
  NoToast = NoToast
  Consumers = {c1, c2}
  MaxToasts = 3
INVARIANTS ToastsTypeOK NoToastStranded
PROPERTIES OldestFirst ToastsDrain
